---- MODULE Spec2Model ----
(***************************************************************************)
(* Local feature-flag provider of mixpanel-go (package flags):             *)
(* LocalFeatureFlagsProvider, its definition cache, the polling goroutine  *)
(* and the flag evaluation functions.                                      *)
(*                                                                         *)
(* Representation.                                                         *)
(*  - A Go string that is hashed, sorted or case-folded is a sequence of   *)
(*    its bytes (<<97, 98, 99>> is "abc").  Context attribute names, which *)
(*    are only looked up, are TLA+ strings.                                *)
(*  - A uint64 is a sequence of 8 bytes, least significant first, so that  *)
(*    the FNV multiplication wraps modulo 2^64 as it does in Go.           *)
(*  - A bucket value, a rollout percentage and a split are counted in      *)
(*    hundredths: normalizedHash returns float64(h % 100) / 100.0, which   *)
(*    is the integer h % 100 here, and 1.0 is 100.                         *)
(*  - A nil-able pointer or map is a record with a field "present".        *)
(*  - *map[string]*ExperimentationFlag, the published snapshot, is the     *)
(*    index of the map object: 0 is the empty map of the constructor, i>0  *)
(*    the map that fetchFlagDefinitions builds from response body i.       *)
(*  - The variants of a flag are values; where getAssignedVariant writes   *)
(*    to a slice, the arrays it can reach are kept in a memory by address, *)
(*    so that a write through one slice shows in every slice on the array. *)
(*  - The file exists in two revisions, src/flags/localFlags.go and        *)
(*    src/unnamed/part_012.  The provider with goroutines is that of the   *)
(*    first; the evaluation is modelled for both, which differ in the      *)
(*    error results (variable revision).                                   *)
(***************************************************************************)
EXTENDS Integers, Sequences, FiniteSets, TLC

----------------------------------------------------------------------------
(* Byte strings *)

RECURSIVE StrLess(_, _)
\* Go's s < t on strings: lexicographic on bytes.
StrLess(s, t) ==
    IF t = <<>> THEN FALSE
    ELSE IF s = <<>> THEN TRUE
    ELSE IF Head(s) # Head(t) THEN Head(s) < Head(t)
    ELSE StrLess(Tail(s), Tail(t))

RECURSIVE Itoa(_)
\* fmt.Sprintf("%d", i): the decimal digits, after a minus sign for i < 0.
Itoa(i) ==
    IF i < 0 THEN <<45>> \o Itoa(-i)
    ELSE IF i < 10 THEN <<48 + i>>
    ELSE Itoa(i \div 10) \o <<48 + (i % 10)>>

----------------------------------------------------------------------------
(* Runes: unicode/utf8 and the case tables of package unicode *)

\* b is a continuation byte in lo..hi.
Cont(s, i, lo, hi) == Len(s) >= i /\ s[i] >= lo /\ s[i] <= hi

\* utf8.DecodeRuneInString(s) for a non-empty s: the first rune of s and the number of
\* bytes it takes.  Bytes that begin no well-formed encoding (a continuation or invalid
\* byte first, a sequence cut short, an overlong form, a surrogate, a value beyond
\* U+10FFFF) give utf8.RuneError, U+FFFD, and the size 1.
DecodeRuneInString(s) ==
    LET b == s[1]
        lo2 == IF b = 224 THEN 160 ELSE IF b = 240 THEN 144 ELSE 128
        hi2 == IF b = 237 THEN 159 ELSE IF b = 244 THEN 143 ELSE 191
        invalid == [rune |-> 65533, size |-> 1]
    IN  IF b < 128 THEN [rune |-> b, size |-> 1]
        ELSE IF b >= 194 /\ b <= 223
        THEN IF Cont(s, 2, 128, 191)
             THEN [rune |-> (b % 32) * 64 + (s[2] % 64), size |-> 2]
             ELSE invalid
        ELSE IF b >= 224 /\ b <= 239
        THEN IF Cont(s, 2, lo2, hi2) /\ Cont(s, 3, 128, 191)
             THEN [rune |-> (b % 16) * 4096 + (s[2] % 64) * 64 + (s[3] % 64), size |-> 3]
             ELSE invalid
        ELSE IF b >= 240 /\ b <= 244
        THEN IF Cont(s, 2, lo2, hi2) /\ Cont(s, 3, 128, 191) /\ Cont(s, 4, 128, 191)
             THEN [rune |-> (b % 8) * 262144 + (s[2] % 64) * 4096 + (s[3] % 64) * 64
                              + (s[4] % 64),
                   size |-> 4]
             ELSE invalid
        ELSE invalid

RECURSIVE Runes(_)
\* for _, r := range s: the runes of s in order.
Runes(s) ==
    IF s = <<>> THEN <<>>
    ELSE LET d == DecodeRuneInString(s)
         IN  <<d.rune>> \o Runes(SubSeq(s, d.size + 1, Len(s)))

\* utf8.AppendRune: the UTF-8 encoding of r, that of utf8.RuneError for a surrogate or a
\* value out of range.
EncodeRune(r) ==
    IF r < 0 \/ r > 1114111 \/ (r >= 55296 /\ r <= 57343) THEN <<239, 191, 189>>
    ELSE IF r < 128 THEN <<r>>
    ELSE IF r < 2048 THEN <<192 + (r \div 64), 128 + (r % 64)>>
    ELSE IF r < 65536
    THEN <<224 + (r \div 4096), 128 + ((r \div 64) % 64), 128 + (r % 64)>>
    ELSE <<240 + (r \div 262144), 128 + ((r \div 4096) % 64), 128 + ((r \div 64) % 64),
           128 + (r % 64)>>

\* A case table is a sequence of entries of four numbers lo, hi, stride, to, one after
\* the other: the runes lo, lo + stride, ..., hi are mapped to to, to + stride, ...; a
\* rune in no entry is mapped to itself.
CaseMapped(table, r) ==
    LET entries == 0..((Len(table) \div 4) - 1)
        has(e) == /\ r >= table[4 * e + 1] /\ r <= table[4 * e + 2]
                  /\ (r - table[4 * e + 1]) % table[4 * e + 3] = 0
        to(e) == table[4 * e + 4] + (r - table[4 * e + 1])
    IN  IF \E e \in entries : has(e) THEN to(CHOOSE e \in entries : has(e)) ELSE r

\* unicode.ToLower as a case table (the lower-case mappings of Unicode 14.0.0).
lowerRanges ==
    <<
       65, 90, 1, 97,  192, 214, 1, 224,  216, 222, 1, 248,  256, 302, 2, 257,
       304, 304, 1, 105,  306, 310, 2, 307,  313, 327, 2, 314,  330, 374, 2, 331,
       376, 376, 1, 255,  377, 381, 2, 378,  385, 385, 1, 595,  386, 388, 2, 387,
       390, 390, 1, 596,  391, 391, 1, 392,  393, 394, 1, 598,  395, 395, 1, 396,
       398, 398, 1, 477,  399, 399, 1, 601,  400, 400, 1, 603,  401, 401, 1, 402,
       403, 403, 1, 608,  404, 404, 1, 611,  406, 406, 1, 617,  407, 407, 1, 616,
       408, 408, 1, 409,  412, 412, 1, 623,  413, 413, 1, 626,  415, 415, 1, 629,
       416, 420, 2, 417,  422, 422, 1, 640,  423, 423, 1, 424,  425, 425, 1, 643,
       428, 428, 1, 429,  430, 430, 1, 648,  431, 431, 1, 432,  433, 434, 1, 650,
       435, 437, 2, 436,  439, 439, 1, 658,  440, 440, 1, 441,  444, 444, 1, 445,
       452, 452, 1, 454,  453, 453, 1, 454,  455, 455, 1, 457,  456, 456, 1, 457,
       458, 458, 1, 460,  459, 475, 2, 460,  478, 494, 2, 479,  497, 497, 1, 499,
       498, 500, 2, 499,  502, 502, 1, 405,  503, 503, 1, 447,  504, 542, 2, 505,
       544, 544, 1, 414,  546, 562, 2, 547,  570, 570, 1, 11365,  571, 571, 1, 572,
       573, 573, 1, 410,  574, 574, 1, 11366,  577, 577, 1, 578,  579, 579, 1, 384,
       580, 580, 1, 649,  581, 581, 1, 652,  582, 590, 2, 583,  880, 882, 2, 881,
       886, 886, 1, 887,  895, 895, 1, 1011,  902, 902, 1, 940,  904, 906, 1, 941,
       908, 908, 1, 972,  910, 911, 1, 973,  913, 929, 1, 945,  931, 939, 1, 963,
       975, 975, 1, 983,  984, 1006, 2, 985,  1012, 1012, 1, 952,  1015, 1015, 1, 1016,
       1017, 1017, 1, 1010,  1018, 1018, 1, 1019,  1021, 1023, 1, 891,  1024, 1039, 1, 1104,
       1040, 1071, 1, 1072,  1120, 1152, 2, 1121,  1162, 1214, 2, 1163,  1216, 1216, 1, 1231,
       1217, 1229, 2, 1218,  1232, 1326, 2, 1233,  1329, 1366, 1, 1377,  4256, 4293, 1, 11520,
       4295, 4295, 1, 11559,  4301, 4301, 1, 11565,  5024, 5103, 1, 43888,  5104, 5109, 1, 5112,
       7312, 7354, 1, 4304,  7357, 7359, 1, 4349,  7680, 7828, 2, 7681,  7838, 7838, 1, 223,
       7840, 7934, 2, 7841,  7944, 7951, 1, 7936,  7960, 7965, 1, 7952,  7976, 7983, 1, 7968,
       7992, 7999, 1, 7984,  8008, 8013, 1, 8000,  8025, 8031, 2, 8017,  8040, 8047, 1, 8032,
       8072, 8079, 1, 8064,  8088, 8095, 1, 8080,  8104, 8111, 1, 8096,  8120, 8121, 1, 8112,
       8122, 8123, 1, 8048,  8124, 8124, 1, 8115,  8136, 8139, 1, 8050,  8140, 8140, 1, 8131,
       8152, 8153, 1, 8144,  8154, 8155, 1, 8054,  8168, 8169, 1, 8160,  8170, 8171, 1, 8058,
       8172, 8172, 1, 8165,  8184, 8185, 1, 8056,  8186, 8187, 1, 8060,  8188, 8188, 1, 8179,
       8486, 8486, 1, 969,  8490, 8490, 1, 107,  8491, 8491, 1, 229,  8498, 8498, 1, 8526,
       8544, 8559, 1, 8560,  8579, 8579, 1, 8580,  9398, 9423, 1, 9424,  11264, 11311, 1, 11312,
       11360, 11360, 1, 11361,  11362, 11362, 1, 619,  11363, 11363, 1, 7549,  11364, 11364, 1, 637,
       11367, 11371, 2, 11368,  11373, 11373, 1, 593,  11374, 11374, 1, 625,  11375, 11375, 1, 592,
       11376, 11376, 1, 594,  11378, 11378, 1, 11379,  11381, 11381, 1, 11382,  11390, 11391, 1, 575,
       11392, 11490, 2, 11393,  11499, 11501, 2, 11500,  11506, 11506, 1, 11507,  42560, 42604, 2, 42561,
       42624, 42650, 2, 42625,  42786, 42798, 2, 42787,  42802, 42862, 2, 42803,  42873, 42875, 2, 42874,
       42877, 42877, 1, 7545,  42878, 42886, 2, 42879,  42891, 42891, 1, 42892,  42893, 42893, 1, 613,
       42896, 42898, 2, 42897,  42902, 42920, 2, 42903,  42922, 42922, 1, 614,  42923, 42923, 1, 604,
       42924, 42924, 1, 609,  42925, 42925, 1, 620,  42926, 42926, 1, 618,  42928, 42928, 1, 670,
       42929, 42929, 1, 647,  42930, 42930, 1, 669,  42931, 42931, 1, 43859,  42932, 42946, 2, 42933,
       42948, 42948, 1, 42900,  42949, 42949, 1, 642,  42950, 42950, 1, 7566,  42951, 42953, 2, 42952,
       42960, 42960, 1, 42961,  42966, 42968, 2, 42967,  42997, 42997, 1, 42998,  65313, 65338, 1, 65345,
       66560, 66599, 1, 66600,  66736, 66771, 1, 66776,  66928, 66938, 1, 66967,  66940, 66954, 1, 66979,
       66956, 66962, 1, 66995,  66964, 66965, 1, 67003,  68736, 68786, 1, 68800,  71840, 71871, 1, 71872,
       93760, 93791, 1, 93792,  125184, 125217, 1, 125218 >>

\* unicode.SimpleFold as a case table (the simple case foldings of Unicode 14.0.0): a
\* rune is mapped to the next greater rune that differs from it by case only, the
\* greatest such rune to the smallest, as asciiFold, caseOrbit and the mappings to
\* upper and lower case give it ('K' to 'k', 'k' to U+212A, U+212A to 'K').
foldRanges ==
    <<
       65, 90, 1, 97,  97, 106, 1, 65,  107, 107, 1, 8490,  108, 114, 1, 76,
       115, 115, 1, 383,  116, 122, 1, 84,  181, 181, 1, 924,  192, 214, 1, 224,
       216, 222, 1, 248,  223, 223, 1, 7838,  224, 228, 1, 192,  229, 229, 1, 8491,
       230, 246, 1, 198,  248, 254, 1, 216,  255, 255, 1, 376,  256, 302, 2, 257,
       257, 303, 2, 256,  306, 310, 2, 307,  307, 311, 2, 306,  313, 327, 2, 314,
       314, 328, 2, 313,  330, 374, 2, 331,  331, 375, 2, 330,  376, 376, 1, 255,
       377, 381, 2, 378,  378, 382, 2, 377,  383, 383, 1, 83,  384, 384, 1, 579,
       385, 385, 1, 595,  386, 388, 2, 387,  387, 389, 2, 386,  390, 390, 1, 596,
       391, 391, 1, 392,  392, 392, 1, 391,  393, 394, 1, 598,  395, 395, 1, 396,
       396, 396, 1, 395,  398, 398, 1, 477,  399, 399, 1, 601,  400, 400, 1, 603,
       401, 401, 1, 402,  402, 402, 1, 401,  403, 403, 1, 608,  404, 404, 1, 611,
       405, 405, 1, 502,  406, 406, 1, 617,  407, 407, 1, 616,  408, 408, 1, 409,
       409, 409, 1, 408,  410, 410, 1, 573,  412, 412, 1, 623,  413, 413, 1, 626,
       414, 414, 1, 544,  415, 415, 1, 629,  416, 420, 2, 417,  417, 421, 2, 416,
       422, 422, 1, 640,  423, 423, 1, 424,  424, 424, 1, 423,  425, 425, 1, 643,
       428, 428, 1, 429,  429, 429, 1, 428,  430, 430, 1, 648,  431, 431, 1, 432,
       432, 432, 1, 431,  433, 434, 1, 650,  435, 437, 2, 436,  436, 438, 2, 435,
       439, 439, 1, 658,  440, 440, 1, 441,  441, 441, 1, 440,  444, 444, 1, 445,
       445, 445, 1, 444,  447, 447, 1, 503,  452, 453, 1, 453,  454, 454, 1, 452,
       455, 456, 1, 456,  457, 457, 1, 455,  458, 459, 1, 459,  460, 460, 1, 458,
       461, 475, 2, 462,  462, 476, 2, 461,  477, 477, 1, 398,  478, 494, 2, 479,
       479, 495, 2, 478,  497, 498, 1, 498,  499, 499, 1, 497,  500, 500, 1, 501,
       501, 501, 1, 500,  502, 502, 1, 405,  503, 503, 1, 447,  504, 542, 2, 505,
       505, 543, 2, 504,  544, 544, 1, 414,  546, 562, 2, 547,  547, 563, 2, 546,
       570, 570, 1, 11365,  571, 571, 1, 572,  572, 572, 1, 571,  573, 573, 1, 410,
       574, 574, 1, 11366,  575, 576, 1, 11390,  577, 577, 1, 578,  578, 578, 1, 577,
       579, 579, 1, 384,  580, 580, 1, 649,  581, 581, 1, 652,  582, 590, 2, 583,
       583, 591, 2, 582,  592, 592, 1, 11375,  593, 593, 1, 11373,  594, 594, 1, 11376,
       595, 595, 1, 385,  596, 596, 1, 390,  598, 599, 1, 393,  601, 601, 1, 399,
       603, 603, 1, 400,  604, 604, 1, 42923,  608, 608, 1, 403,  609, 609, 1, 42924,
       611, 611, 1, 404,  613, 613, 1, 42893,  614, 614, 1, 42922,  616, 616, 1, 407,
       617, 617, 1, 406,  618, 618, 1, 42926,  619, 619, 1, 11362,  620, 620, 1, 42925,
       623, 623, 1, 412,  625, 625, 1, 11374,  626, 626, 1, 413,  629, 629, 1, 415,
       637, 637, 1, 11364,  640, 640, 1, 422,  642, 642, 1, 42949,  643, 643, 1, 425,
       647, 647, 1, 42929,  648, 648, 1, 430,  649, 649, 1, 580,  650, 651, 1, 433,
       652, 652, 1, 581,  658, 658, 1, 439,  669, 669, 1, 42930,  670, 670, 1, 42928,
       837, 837, 1, 921,  880, 882, 2, 881,  881, 883, 2, 880,  886, 886, 1, 887,
       887, 887, 1, 886,  891, 893, 1, 1021,  895, 895, 1, 1011,  902, 902, 1, 940,
       904, 906, 1, 941,  908, 908, 1, 972,  910, 911, 1, 973,  913, 929, 1, 945,
       931, 931, 1, 962,  932, 939, 1, 964,  940, 940, 1, 902,  941, 943, 1, 904,
       945, 947, 2, 913,  946, 946, 1, 976,  948, 950, 2, 916,  949, 949, 1, 1013,
       951, 951, 1, 919,  952, 952, 1, 977,  953, 953, 1, 8126,  954, 954, 1, 1008,
       955, 959, 2, 923,  956, 956, 1, 181,  958, 958, 1, 926,  960, 960, 1, 982,
       961, 961, 1, 1009,  962, 962, 1, 963,  963, 965, 1, 931,  966, 966, 1, 981,
       967, 968, 1, 935,  969, 969, 1, 8486,  970, 971, 1, 938,  972, 972, 1, 908,
       973, 974, 1, 910,  975, 975, 1, 983,  976, 976, 1, 914,  977, 977, 1, 1012,
       981, 981, 1, 934,  982, 982, 1, 928,  983, 983, 1, 975,  984, 1006, 2, 985,
       985, 1007, 2, 984,  1008, 1008, 1, 922,  1009, 1009, 1, 929,  1010, 1010, 1, 1017,
       1011, 1011, 1, 895,  1012, 1012, 1, 920,  1013, 1013, 1, 917,  1015, 1015, 1, 1016,
       1016, 1016, 1, 1015,  1017, 1017, 1, 1010,  1018, 1018, 1, 1019,  1019, 1019, 1, 1018,
       1021, 1023, 1, 891,  1024, 1039, 1, 1104,  1040, 1071, 1, 1072,  1072, 1073, 1, 1040,
       1074, 1074, 1, 7296,  1075, 1087, 2, 1043,  1076, 1076, 1, 7297,  1078, 1084, 2, 1046,
       1086, 1086, 1, 7298,  1088, 1088, 1, 1056,  1089, 1090, 1, 7299,  1091, 1097, 1, 1059,
       1098, 1098, 1, 7302,  1099, 1103, 1, 1067,  1104, 1119, 1, 1024,  1120, 1152, 2, 1121,
       1121, 1121, 1, 1120,  1123, 1123, 1, 7303,  1125, 1153, 2, 1124,  1162, 1214, 2, 1163,
       1163, 1215, 2, 1162,  1216, 1216, 1, 1231,  1217, 1229, 2, 1218,  1218, 1230, 2, 1217,
       1231, 1231, 1, 1216,  1232, 1326, 2, 1233,  1233, 1327, 2, 1232,  1329, 1366, 1, 1377,
       1377, 1414, 1, 1329,  4256, 4293, 1, 11520,  4295, 4295, 1, 11559,  4301, 4301, 1, 11565,
       4304, 4346, 1, 7312,  4349, 4351, 1, 7357,  5024, 5103, 1, 43888,  5104, 5109, 1, 5112,
       5112, 5117, 1, 5104,  7296, 7296, 1, 1042,  7297, 7297, 1, 1044,  7298, 7298, 1, 1054,
       7299, 7299, 1, 1057,  7300, 7300, 1, 7301,  7301, 7301, 1, 1058,  7302, 7302, 1, 1066,
       7303, 7303, 1, 1122,  7304, 7304, 1, 42570,  7312, 7354, 1, 4304,  7357, 7359, 1, 4349,
       7545, 7545, 1, 42877,  7549, 7549, 1, 11363,  7566, 7566, 1, 42950,  7680, 7828, 2, 7681,
       7681, 7775, 2, 7680,  7777, 7777, 1, 7835,  7779, 7829, 2, 7778,  7835, 7835, 1, 7776,
       7838, 7838, 1, 223,  7840, 7934, 2, 7841,  7841, 7935, 2, 7840,  7936, 7943, 1, 7944,
       7944, 7951, 1, 7936,  7952, 7957, 1, 7960,  7960, 7965, 1, 7952,  7968, 7975, 1, 7976,
       7976, 7983, 1, 7968,  7984, 7991, 1, 7992,  7992, 7999, 1, 7984,  8000, 8005, 1, 8008,
       8008, 8013, 1, 8000,  8017, 8023, 2, 8025,  8025, 8031, 2, 8017,  8032, 8039, 1, 8040,
       8040, 8047, 1, 8032,  8048, 8049, 1, 8122,  8050, 8053, 1, 8136,  8054, 8055, 1, 8154,
       8056, 8057, 1, 8184,  8058, 8059, 1, 8170,  8060, 8061, 1, 8186,  8064, 8071, 1, 8072,
       8072, 8079, 1, 8064,  8080, 8087, 1, 8088,  8088, 8095, 1, 8080,  8096, 8103, 1, 8104,
       8104, 8111, 1, 8096,  8112, 8113, 1, 8120,  8115, 8115, 1, 8124,  8120, 8121, 1, 8112,
       8122, 8123, 1, 8048,  8124, 8124, 1, 8115,  8126, 8126, 1, 837,  8131, 8131, 1, 8140,
       8136, 8139, 1, 8050,  8140, 8140, 1, 8131,  8144, 8145, 1, 8152,  8152, 8153, 1, 8144,
       8154, 8155, 1, 8054,  8160, 8161, 1, 8168,  8165, 8165, 1, 8172,  8168, 8169, 1, 8160,
       8170, 8171, 1, 8058,  8172, 8172, 1, 8165,  8179, 8179, 1, 8188,  8184, 8185, 1, 8056,
       8186, 8187, 1, 8060,  8188, 8188, 1, 8179,  8486, 8486, 1, 937,  8490, 8490, 1, 75,
       8491, 8491, 1, 197,  8498, 8498, 1, 8526,  8526, 8526, 1, 8498,  8544, 8559, 1, 8560,
       8560, 8575, 1, 8544,  8579, 8579, 1, 8580,  8580, 8580, 1, 8579,  9398, 9423, 1, 9424,
       9424, 9449, 1, 9398,  11264, 11311, 1, 11312,  11312, 11359, 1, 11264,  11360, 11360, 1, 11361,
       11361, 11361, 1, 11360,  11362, 11362, 1, 619,  11363, 11363, 1, 7549,  11364, 11364, 1, 637,
       11365, 11365, 1, 570,  11366, 11366, 1, 574,  11367, 11371, 2, 11368,  11368, 11372, 2, 11367,
       11373, 11373, 1, 593,  11374, 11374, 1, 625,  11375, 11375, 1, 592,  11376, 11376, 1, 594,
       11378, 11378, 1, 11379,  11379, 11379, 1, 11378,  11381, 11381, 1, 11382,  11382, 11382, 1, 11381,
       11390, 11391, 1, 575,  11392, 11490, 2, 11393,  11393, 11491, 2, 11392,  11499, 11501, 2, 11500,
       11500, 11502, 2, 11499,  11506, 11506, 1, 11507,  11507, 11507, 1, 11506,  11520, 11557, 1, 4256,
       11559, 11559, 1, 4295,  11565, 11565, 1, 4301,  42560, 42604, 2, 42561,  42561, 42569, 2, 42560,
       42571, 42571, 1, 7304,  42573, 42605, 2, 42572,  42624, 42650, 2, 42625,  42625, 42651, 2, 42624,
       42786, 42798, 2, 42787,  42787, 42799, 2, 42786,  42802, 42862, 2, 42803,  42803, 42863, 2, 42802,
       42873, 42875, 2, 42874,  42874, 42876, 2, 42873,  42877, 42877, 1, 7545,  42878, 42886, 2, 42879,
       42879, 42887, 2, 42878,  42891, 42891, 1, 42892,  42892, 42892, 1, 42891,  42893, 42893, 1, 613,
       42896, 42898, 2, 42897,  42897, 42899, 2, 42896,  42900, 42900, 1, 42948,  42902, 42920, 2, 42903,
       42903, 42921, 2, 42902,  42922, 42922, 1, 614,  42923, 42923, 1, 604,  42924, 42924, 1, 609,
       42925, 42925, 1, 620,  42926, 42926, 1, 618,  42928, 42928, 1, 670,  42929, 42929, 1, 647,
       42930, 42930, 1, 669,  42931, 42931, 1, 43859,  42932, 42946, 2, 42933,  42933, 42947, 2, 42932,
       42948, 42948, 1, 42900,  42949, 42949, 1, 642,  42950, 42950, 1, 7566,  42951, 42953, 2, 42952,
       42952, 42954, 2, 42951,  42960, 42960, 1, 42961,  42961, 42961, 1, 42960,  42966, 42968, 2, 42967,
       42967, 42969, 2, 42966,  42997, 42997, 1, 42998,  42998, 42998, 1, 42997,  43859, 43859, 1, 42931,
       43888, 43967, 1, 5024,  65313, 65338, 1, 65345,  65345, 65370, 1, 65313,  66560, 66599, 1, 66600,
       66600, 66639, 1, 66560,  66736, 66771, 1, 66776,  66776, 66811, 1, 66736,  66928, 66938, 1, 66967,
       66940, 66954, 1, 66979,  66956, 66962, 1, 66995,  66964, 66965, 1, 67003,  66967, 66977, 1, 66928,
       66979, 66993, 1, 66940,  66995, 67001, 1, 66956,  67003, 67004, 1, 66964,  68736, 68786, 1, 68800,
       68800, 68850, 1, 68736,  71840, 71871, 1, 71872,  71872, 71903, 1, 71840,  93760, 93791, 1, 93792,
       93792, 93823, 1, 93760,  125184, 125217, 1, 125218,  125218, 125251, 1, 125184 >>

\* unicode.ToLower(r)
unicodeToLower(r) == IF r < 128 THEN (IF r >= 65 /\ r <= 90 THEN r + 32 ELSE r)
                     ELSE CaseMapped(lowerRanges, r)

\* unicode.SimpleFold(r)
SimpleFold(r) == CaseMapped(foldRanges, r)

RECURSIVE foldsUpTo(_, _, _)
\* for r != sr && r < tr { r = unicode.SimpleFold(r) }; r == tr
foldsUpTo(r, sr, tr) ==
    IF r # sr /\ r < tr THEN foldsUpTo(SimpleFold(r), sr, tr) ELSE r = tr

\* One step of the loop of strings.EqualFold: the runes sr and tr are the same, or differ
\* by case only.
equalFoldRune(a, b) ==
    LET sr == IF b < a THEN b ELSE a
        tr == IF b < a THEN a ELSE b
    IN  \/ tr = sr
        \/ /\ tr < 128
           /\ sr >= 65 /\ sr <= 90 /\ tr = sr + 32
        \/ /\ tr >= 128
           /\ foldsUpTo(SimpleFold(sr), sr, tr)

\* s == t: equality that minds letter case.
EqualExact(s, t) == s = t

\* The loop of strings.EqualFold over the runes rs and rt of its arguments.
equalFoldRunes(rs, rt) ==
    /\ Len(rs) = Len(rt)
    /\ \A i \in 1..Len(rs) : equalFoldRune(rs[i], rt[i])

\* strings.EqualFold(s, t): s and t have as many runes, and rune by rune they are equal
\* under simple case folding.
EqualFold(s, t) == equalFoldRunes(Runes(s), Runes(t))

RECURSIVE Concat(_)
\* The strings of a sequence one after the other.
Concat(strs) == IF strs = <<>> THEN <<>> ELSE Head(strs) \o Concat(Tail(strs))

\* strings.Map(unicode.ToLower, s) on the runes rs of s: every rune is mapped and
\* encoded, a byte that is no UTF-8 (decoded as utf8.RuneError) as the encoding of
\* utf8.RuneError.
mapToLower(rs) == Concat([i \in 1..Len(rs) |-> EncodeRune(unicodeToLower(rs[i]))])

\* strings.ToLower(s): in a string of ASCII bytes the upper-case letters are replaced
\* (c += 'a' - 'A'); any other string goes through strings.Map(unicode.ToLower, s).
ToLower(s) ==
    IF \A i \in 1..Len(s) : s[i] < 128
    THEN [i \in 1..Len(s) |-> IF s[i] >= 65 /\ s[i] <= 90 THEN s[i] + 32 ELSE s[i]]
    ELSE mapToLower(Runes(s))

----------------------------------------------------------------------------
(* utils.go: FNV-1a 64 and normalizedHash *)

RECURSIVE XorByte(_, _)
\* a ^ b on two bytes.
XorByte(a, b) ==
    IF a = 0 THEN b
    ELSE IF b = 0 THEN a
    ELSE (((a % 2) + (b % 2)) % 2) + 2 * XorByte(a \div 2, b \div 2)

\* fnvOffset = 0xCBF29CE484222325, least significant byte first.
fnvOffset == <<37, 35, 34, 132, 228, 156, 242, 203>>

\* fnvPrime = 0x100000001B3 = 2^40 + 0x1B3: low part and the byte shift of the high bit.
fnvPrimeLow == 435
fnvPrimeShift == 5

RECURSIVE MulSmall(_, _, _)
\* (h * m + carry) modulo 2^(8 * Len(h)), on little-endian bytes.
MulSmall(h, m, carry) ==
    IF h = <<>> THEN <<>>
    ELSE LET p == Head(h) * m + carry
         IN  <<p % 256>> \o MulSmall(Tail(h), m, p \div 256)

RECURSIVE AddBytes(_, _, _)
\* (a + b + carry) modulo 2^(8 * Len(a)), on little-endian bytes of equal length.
AddBytes(a, b, carry) ==
    IF a = <<>> THEN <<>>
    ELSE LET s == Head(a) + Head(b) + carry
         IN  <<s % 256>> \o AddBytes(Tail(a), Tail(b), s \div 256)

\* h << (8 * n), truncated to the width of h.
ShiftBytes(h, n) ==
    [i \in 1..Len(h) |-> IF i <= n THEN 0 ELSE h[i - n]]

\* hash *= fnvPrime, modulo 2^64.
MulPrime(h) == AddBytes(MulSmall(h, fnvPrimeLow, 0), ShiftBytes(h, fnvPrimeShift), 0)

RECURSIVE fnvLoopMultiplyFirst(_, _)
\* FNV-1: the multiplication before the xor.
fnvLoopMultiplyFirst(hash, data) ==
    IF data = <<>> THEN hash
    ELSE LET h == MulPrime(hash)
         IN  fnvLoopMultiplyFirst([h EXCEPT ![1] = XorByte(h[1], Head(data))], Tail(data))

RECURSIVE fnvLoop(_, _)
\* for _, b := range data { hash ^= uint64(b); hash *= fnvPrime }
fnvLoop(hash, data) ==
    IF data = <<>> THEN hash
    ELSE fnvLoop(MulPrime([hash EXCEPT ![1] = XorByte(hash[1], Head(data))]), Tail(data))

\* fnv1a64(data): the hash as 8 bytes, least significant first.
fnv1a64(data) == fnvLoop(fnvOffset, data)

RECURSIVE ModBytes(_, _)
\* The uint64 h modulo m.
ModBytes(h, m) ==
    IF h = <<>> THEN 0
    ELSE (ModBytes(Tail(h), m) * 256 + Head(h)) % m

\* hashValue % 100; the float it stands for is this number / 100.0.
HashBuckets == 100

\* The keys and salts of the flags and contexts defined below, whose bucket values are
\* computed once and looked up afterwards.
MemoKeys ==
    {<<117, 49>>, <<117, 51>>, <<113, 97>>, <<55>>, <<100, 49>>,
     <<117, 115, 101, 114, 45, 52, 56>>}
MemoSalts ==
    {<<102, 114, 111, 108, 108, 111, 117, 116>>,
     <<102, 118, 97, 114, 105, 97, 110, 116>>,
     <<102, 115, 48>>,
     <<102, 115, 49>>,
     <<102, 115, 50>>,
     <<102, 115, 118, 97, 114, 105, 97, 110, 116>>,
     <<103, 114, 111, 108, 108, 111, 117, 116>>,
     <<103, 118, 97, 114, 105, 97, 110, 116>>,
     <<103, 115, 48>>,
     <<103, 115, 118, 97, 114, 105, 97, 110, 116>>}

\* (f @@ <<>> is f as an explicit table of its values.)
hashMemo ==
    [p \in MemoKeys \X MemoSalts |-> ModBytes(fnv1a64(p[1] \o p[2]), HashBuckets)] @@ <<>>

normalizedHash(key, salt) ==
    IF <<key, salt>> \in DOMAIN hashMemo THEN hashMemo[<<key, salt>>]
    ELSE ModBytes(fnv1a64(key \o salt), HashBuckets)

----------------------------------------------------------------------------
(* float64 arithmetic on bucket values and splits *)

\* A float64 x that is 0 or lies between 0.01 and 2^12 is kept exactly, as the integer
\* x * 2^59 in digits of base 2^24 = 16777216, least significant first: such an x is a
\* multiple of 2^-59.  Three digits hold it; the fourth digit of the operators below is
\* there for the conversion, which works on x * 2^67.  The operations are functions of
\* such integers.

\* The number of bits of an integer below 2^24: 0 for 0.
BitLen[n \in Nat] == CHOOSE k \in 0..24 : n < 2 ^ k /\ (k = 0 \/ n >= 2 ^ (k - 1))

\* The number of bits of the integer h of four digits.
BitLenDigits[h \in Nat \X Nat \X Nat \X Nat] ==
    IF h[4] # 0 THEN 72 + BitLen[h[4]]
    ELSE IF h[3] # 0 THEN 48 + BitLen[h[3]]
    ELSE IF h[2] # 0 THEN 24 + BitLen[h[2]]
    ELSE BitLen[h[1]]

\* h + c for an integer h of four digits and a small integer c >= -h[1].
AddInt[h \in Nat \X Nat \X Nat \X Nat, c \in Int] ==
    LET s1 == h[1] + c
        s2 == h[2] + (s1 \div 16777216)
        s3 == h[3] + (s2 \div 16777216)
    IN  <<s1 % 16777216, s2 % 16777216, s3 % 16777216, h[4] + (s3 \div 16777216)>>

\* Rounding to nearest, and to even on a tie, at bit d < 24: the integer h of four
\* digits, which stands for a real number between h and h + 1 (sticky), beyond h, or for
\* h itself, becomes the nearest integer whose d lowest bits are zero.
RoundAt[h \in Nat \X Nat \X Nat \X Nat, sticky \in BOOLEAN, d \in Int] ==
    IF d <= 0 THEN h
    ELSE LET r == h[1] % (2 ^ d)
             half == 2 ^ (d - 1)
             odd == (h[1] \div (2 ^ d)) % 2 = 1
             up == r > half \/ (r = half /\ (sticky \/ odd))
         IN  AddInt[h, (IF up THEN 2 ^ d ELSE 0) - r]

\* Rounding to the 53 bits of a float64 significand: h, of fewer than 77 bits, becomes
\* the nearest integer whose bits below the top 53 are zero.
RoundTo53[h \in Nat \X Nat \X Nat \X Nat, sticky \in BOOLEAN] ==
    RoundAt[h, sticky, BitLenDigits[h] - 53]

\* q / 2^8 for an integer q of four digits whose 8 lowest bits are zero, and the three
\* lowest digits of an integer of four digits.
DropLow8[q \in Nat \X Nat \X Nat \X Nat] ==
    <<(q[1] \div 256) + ((q[2] % 256) * 65536),
      (q[2] \div 256) + ((q[3] % 256) * 65536),
      (q[3] \div 256) + ((q[4] % 256) * 65536)>>
Low3[h \in Nat \X Nat \X Nat \X Nat] == <<h[1], h[2], h[3]>>

\* The float64 nearest to n / 100, for n in 0..4095: what float64(n) / 100.0 gives, and
\* what encoding/json gives for the decimal n / 100 of a response.  n * 2^67 is divided
\* by 100 digit by digit from the top, the quotient is rounded, and its lowest 8 bits,
\* which are zero, are dropped.
Float64[n \in 0..4095] ==
    LET c4 == (n * 524288) \div 16777216
        c3 == ((c4 % 100) * 16777216) + ((n * 524288) % 16777216)
        c2 == (c3 % 100) * 16777216
        c1 == (c2 % 100) * 16777216
    IN  DropLow8[RoundTo53[<<c1 \div 100, c2 \div 100, c3 \div 100, c4 \div 100>>,
                           c1 % 100 # 0]]

\* x + y in float64: the exact sum, rounded.
AddFloat64[x \in Nat \X Nat \X Nat, y \in Nat \X Nat \X Nat] ==
    LET s1 == x[1] + y[1]
        s2 == x[2] + y[2] + (s1 \div 16777216)
        s3 == x[3] + y[3] + (s2 \div 16777216)
    IN  Low3[RoundTo53[<<s1 % 16777216, s2 % 16777216, s3 % 16777216, s3 \div 16777216>>,
                       FALSE]]

\* x < y in float64.
LessFloat64[x \in Nat \X Nat \X Nat, y \in Nat \X Nat \X Nat] ==
    \/ x[3] < y[3]
    \/ x[3] = y[3] /\ x[2] < y[2]
    \/ x[3] = y[3] /\ x[2] = y[2] /\ x[1] < y[1]

----------------------------------------------------------------------------
(* Values of the Go types (types.go of package flags) *)

\* A nil *string / a non-nil one.
NoStr == [present |-> FALSE, v |-> <<>>]
SomeStr(s) == [present |-> TRUE, v |-> s]

\* A nil *bool / a non-nil one.
NoBool == [present |-> FALSE, v |-> FALSE]
SomeBool(b) == [present |-> TRUE, v |-> b]

\* A value of type any: a Go string, bool, int, a float64 that is a whole number, nil,
\* a map[string]any (a function from the bytes of a key to a value of type any) or a
\* []any (a sequence of values of type any).
StrVal(s) == [type |-> "string", str |-> s, num |-> 0, props |-> <<>>]
BoolVal(b) == [type |-> "bool", str |-> IF b THEN <<116, 114, 117, 101>> ELSE <<102, 97, 108, 115, 101>>, num |-> 0, props |-> <<>>]
IntVal(n) == [type |-> "int", str |-> <<>>, num |-> n, props |-> <<>>]
FloatVal(n) == [type |-> "float64", str |-> <<>>, num |-> n, props |-> <<>>]
MapVal(m) == [type |-> "map", str |-> <<>>, num |-> 0, props |-> m]
SliceVal(s) == [type |-> "slice", str |-> <<>>, num |-> 0, props |-> s]
NilVal == [type |-> "nil", str |-> <<>>, num |-> 0, props |-> <<>>]

RECURSIVE TrimZeros(_)
\* Decimal digits without their trailing zeros.
TrimZeros(digits) ==
    IF digits # <<>> /\ digits[Len(digits)] = 48
    THEN TrimZeros(SubSeq(digits, 1, Len(digits) - 1))
    ELSE digits

\* strconv's %e with the shortest digits, for a whole number n >= 10^6 given by its
\* decimal digits: d.ddde+XX.
FormatE(digits) ==
    LET mantissa == TrimZeros(digits)
        exp == Len(digits) - 1
    IN  <<Head(mantissa)>>
            \o (IF Len(mantissa) > 1 THEN <<46>> \o Tail(mantissa) ELSE <<>>)
            \o <<101, 43>> \o (IF exp < 10 THEN <<48>> ELSE <<>>) \o Itoa(exp)

\* fmt.Sprintf("%v", f) for the float64 of a whole number n: %g with the shortest
\* digits, which is %e from the exponent 6 on.
FormatFloat(n) ==
    IF n < 0 THEN <<45>> \o (IF -n < 1000000 THEN Itoa(-n) ELSE FormatE(Itoa(-n)))
    ELSE IF n < 1000000 THEN Itoa(n)
    ELSE FormatE(Itoa(n))

RECURSIVE SortedKeys(_)
\* The keys of a map in the order fmt prints them: sorted as strings.
SortedKeys(keys) ==
    IF keys = {} THEN <<>>
    ELSE LET first == CHOOSE k \in keys : \A j \in keys \ {k} : StrLess(k, j)
         IN  <<first>> \o SortedKeys(keys \ {first})

RECURSIVE JoinSpace(_)
\* The strings of a sequence with one space between them.
JoinSpace(strs) ==
    IF strs = <<>> THEN <<>>
    ELSE IF Len(strs) = 1 THEN strs[1]
    ELSE strs[1] \o <<32>> \o JoinSpace(Tail(strs))

RECURSIVE Sprintv(_)
\* fmt.Sprintf("%v", x): a string as it is, true or false, an int in decimal, a float64
\* in %g, <nil>, map[k:v k:v] with the keys sorted, [v v] for a slice.
Sprintv(x) ==
    CASE x.type = "int" -> Itoa(x.num)
      [] x.type = "float64" -> FormatFloat(x.num)
      [] x.type = "nil" -> <<60, 110, 105, 108, 62>>
      [] x.type = "map" ->
            LET keys == SortedKeys(DOMAIN x.props)
            IN  <<109, 97, 112, 91>>
                    \o JoinSpace([i \in 1..Len(keys) |->
                                    keys[i] \o <<58>> \o Sprintv(x.props[keys[i]])])
                    \o <<93>>
      [] x.type = "slice" ->
            <<91>> \o JoinSpace([i \in 1..Len(x.props) |-> Sprintv(x.props[i])]) \o <<93>>
      [] OTHER -> x.str

\* SelectedVariant{}: every field nil.
ZeroSelectedVariant ==
    [VariantKey |-> NoStr, VariantValue |-> NilVal, ExperimentID |-> NoStr,
     IsExperimentActive |-> NoBool, IsQATester |-> NoBool]

\* A nil / non-nil *SelectedVariant, *Rollout (by index into flag.Ruleset.Rollout).
NoVariant == [present |-> FALSE, v |-> ZeroSelectedVariant]
SomeVariant(sv) == [present |-> TRUE, v |-> sv]

\* Rollout.RuntimeEvaluationRule: nil, or the JsonLogic object {op: [{"var": var}, val]}.
NoRule == [present |-> FALSE, op |-> "", var |-> <<>>, val |-> <<>>]
Rule(op, var, val) == [present |-> TRUE, op |-> op, var |-> var, val |-> val]

\* Rollout.VariantOverride, Rollout.VariantSplits, RuleSet.Test: nil or set.
NoOverride == [present |-> FALSE, Key |-> <<>>]
Override(k) == [present |-> TRUE, Key |-> k]
NoSplits == [present |-> FALSE, m |-> <<>>]
Splits(m) == [present |-> TRUE, m |-> m]
NoTest == [present |-> FALSE, Users |-> [present |-> FALSE, m |-> <<>>]]
TestUsers(m) == [present |-> TRUE, Users |-> [present |-> TRUE, m |-> m]]

----------------------------------------------------------------------------
(* Evaluation (localFlags.go) *)

\* The source tree holds two revisions of localFlags.go.  In src/flags/localFlags.go
\* evaluateJSONLogicRule returns a bool, and GetVariant, GetVariantValue, IsEnabled and
\* GetAllVariants return no error.  In src/unnamed/part_012 evaluateJSONLogicRule
\* returns (bool, error), and isRuntimeEvaluationSatisfied, getAssignedRollout and the
\* four calls pass the error on.  The evaluation is the same otherwise.
VARIABLE
    revision          \* the revision the provider is built from

RevLocalFlags == "src/flags/localFlags.go"
RevPart012 == "src/unnamed/part_012"

\* The functions that evaluate a rule have an error result.
returnsRuleErrors == revision = RevPart012

\* The functions on keys that take at each key one of the values outcomes allows there.
Choices(keys, outcomes) ==
    {f \in [keys -> UNION {outcomes[k] : k \in keys}] : \A k \in keys : f[k] \in outcomes[k]}

RECURSIVE lowercaseKeysAndValues(_)
\* The values lowercaseKeysAndValues(val) can return.  A string is lower-cased; a
\* map[string]any gets its keys lower-cased and its values treated in the same way, and
\* where several keys are lower-cased to the same key, the one that the range over the
\* map visits last leaves its value, which can be any of them, as the order of a range
\* over a map is not specified; the elements of a []any are treated in the same way;
\* any other value is returned as it is.
lowercaseKeysAndValues(val) ==
    CASE val.type = "string" -> {StrVal(ToLower(val.str))}
      [] val.type = "map" ->
            LET keys == {ToLower(key) : key \in DOMAIN val.props}
                outcomes == [k \in keys |->
                                UNION {lowercaseKeysAndValues(val.props[key]) :
                                          key \in {j \in DOMAIN val.props : ToLower(j) = k}}]
            IN  {MapVal(result) : result \in Choices(keys, outcomes)}
      [] val.type = "slice" ->
            LET outcomes == [i \in DOMAIN val.props |-> lowercaseKeysAndValues(val.props[i])]
            IN  {SliceVal(result) : result \in Choices(DOMAIN val.props, outcomes)}
      [] OTHER -> {val}

\* lowercaseOnlyLeafNodes on a rule: the string leaves (the variable name and the
\* literal) are lower-cased, the operator key is left alone.
lowercaseOnlyLeafNodes(rule) == [rule EXCEPT !.var = ToLower(@), !.val = ToLower(@)]

\* jsonlogic.ApplyInterface(rule, data) for {op: [{"var": var}, val]} with a string
\* literal val, on data that is a map[string]any: "ok" carries a boolean result,
\* "nonbool" a result of another type, "err" an evaluation error.  A property that is
\* no string equals no literal.
jsonlogicApply(rule, data) ==
    LET has == rule.var \in DOMAIN data.props
    IN  IF rule.op = "==" THEN [kind |-> "ok", b |-> has /\ data.props[rule.var] = StrVal(rule.val)]
        ELSE IF rule.op = "!=" THEN [kind |-> "ok", b |-> ~(has /\ data.props[rule.var] = StrVal(rule.val))]
        ELSE IF rule.op = "var" THEN [kind |-> "nonbool", b |-> FALSE]
        ELSE [kind |-> "err", b |-> FALSE]

\* evaluateJSONLogicRule that takes a rule as satisfied when there are no properties to
\* evaluate it on.
evaluateRuleFailOpen(rule, flagContext) ==
    IF ~("custom_properties" \in DOMAIN flagContext
         /\ flagContext["custom_properties"].type = "map")
    THEN {[satisfied |-> TRUE, err |-> FALSE]}
    ELSE LET normalizedRule == lowercaseOnlyLeafNodes(rule)
             result(normalizedProps) == jsonlogicApply(normalizedRule, normalizedProps)
         IN  {IF result(normalizedProps).kind = "ok"
              THEN [satisfied |-> result(normalizedProps).b, err |-> FALSE]
              ELSE [satisfied |-> FALSE, err |-> returnsRuleErrors] :
                 normalizedProps \in lowercaseKeysAndValues(flagContext["custom_properties"])}

\* The results evaluateJSONLogicRule can return, one for each value that
\* lowercaseKeysAndValues can return for the custom_properties: satisfied is the bool,
\* err tells that the error result is not nil.  When ApplyInterface returns an error or
\* a value that is no bool, the bool is false; the revision without error result logs
\* the error of ApplyInterface and returns, the other returns an error.
evaluateJSONLogicRule(rule, flagContext) ==
    IF ~("custom_properties" \in DOMAIN flagContext
         /\ flagContext["custom_properties"].type = "map")
    THEN {[satisfied |-> FALSE, err |-> FALSE]}
    ELSE LET normalizedRule == lowercaseOnlyLeafNodes(rule)
             result(normalizedProps) == jsonlogicApply(normalizedRule, normalizedProps)
         IN  {IF result(normalizedProps).kind = "ok"
              THEN [satisfied |-> result(normalizedProps).b, err |-> FALSE]
              ELSE [satisfied |-> FALSE, err |-> returnsRuleErrors] :
                 normalizedProps \in lowercaseKeysAndValues(flagContext["custom_properties"])}

\* A rollout without rule is satisfied.
isRuntimeEvaluationSatisfied(rollout, flagContext) ==
    IF rollout.RuntimeEvaluationRule.present
    THEN evaluateJSONLogicRule(rollout.RuntimeEvaluationRule, flagContext)
    ELSE {[satisfied |-> TRUE, err |-> FALSE]}

RECURSIVE matchFrom(_, _, _, _)
matchFrom(variantKey, flag, isQATester, i) ==
    IF i > Len(flag.Ruleset.Variants) THEN NoVariant
    ELSE LET variant == flag.Ruleset.Variants[i]
         IN  IF EqualFold(variantKey, variant.Key)
             THEN SomeVariant([VariantKey |-> SomeStr(variant.Key),
                               VariantValue |-> variant.Value,
                               ExperimentID |-> flag.ExperimentID,
                               IsExperimentActive |-> flag.IsExperimentActive,
                               IsQATester |-> IF isQATester THEN SomeBool(TRUE) ELSE NoBool])
             ELSE matchFrom(variantKey, flag, isQATester, i + 1)

\* getMatchingVariant that falls back on the first variant of the flag.
getMatchingOrFirstVariant(variantKey, flag, isQATester) ==
    IF matchFrom(variantKey, flag, isQATester, 1).present \/ flag.Ruleset.Variants = <<>>
    THEN matchFrom(variantKey, flag, isQATester, 1)
    ELSE matchFrom(flag.Ruleset.Variants[1].Key, flag, isQATester, 1)

\* The first variant of the flag whose key equals variantKey ignoring case, or nil.
getMatchingVariant(variantKey, flag, isQATester) == matchFrom(variantKey, flag, isQATester, 1)

\* getVariantOverrideForTestUser that does not mark the variant as a QA tester's.
getVariantOverrideUnmarked(flag, flagContext) ==
    IF ~flag.Ruleset.Test.present \/ ~flag.Ruleset.Test.Users.present THEN NoVariant
    ELSE IF ~("distinct_id" \in DOMAIN flagContext /\ flagContext["distinct_id"].type = "string")
    THEN NoVariant
    ELSE LET distinctID == flagContext["distinct_id"].str
         IN  IF distinctID \notin DOMAIN flag.Ruleset.Test.Users.m THEN NoVariant
             ELSE getMatchingVariant(flag.Ruleset.Test.Users.m[distinctID], flag, FALSE)

getVariantOverrideForTestUser(flag, flagContext) ==
    IF ~flag.Ruleset.Test.present \/ ~flag.Ruleset.Test.Users.present THEN NoVariant
    ELSE IF ~("distinct_id" \in DOMAIN flagContext /\ flagContext["distinct_id"].type = "string")
    THEN NoVariant
    ELSE LET distinctID == flagContext["distinct_id"].str
         IN  IF distinctID \notin DOMAIN flag.Ruleset.Test.Users.m THEN NoVariant
             ELSE getMatchingVariant(flag.Ruleset.Test.Users.m[distinctID], flag, TRUE)

\* The salt with the rollouts counted from 1.
rolloutSaltOneBased(flag, i) ==
    IF flag.HashSalt.present THEN flag.Key \o flag.HashSalt.v \o Itoa(i + 1)
    ELSE flag.Key \o <<114, 111, 108, 108, 111, 117, 116>>

\* The salt of the rollout at 0-based index i.
rolloutSalt(flag, i) ==
    IF flag.HashSalt.present THEN flag.Key \o flag.HashSalt.v \o Itoa(i)
    ELSE flag.Key \o <<114, 111, 108, 108, 111, 117, 116>>

\* What getAssignedRollout returns: the rollout as its 1-based position in
\* flag.Ruleset.Rollout, 0 for nil, and whether the error is not nil.
NoRollout == [rollout |-> 0, err |-> FALSE]

RECURSIVE rolloutFromInclusive(_, _, _, _)
\* The loop of getAssignedRollout with the percentage test rolloutHash <= percentage.
rolloutFromInclusive(flag, contextValue, flagContext, i) ==
    IF i >= Len(flag.Ruleset.Rollout) THEN {NoRollout}
    ELSE LET rollout == flag.Ruleset.Rollout[i + 1]
             rolloutHash == normalizedHash(Sprintv(contextValue), rolloutSalt(flag, i))
             results == IF rolloutHash <= rollout.RolloutPercentage
                        THEN isRuntimeEvaluationSatisfied(rollout, flagContext)
                        ELSE {[satisfied |-> FALSE, err |-> FALSE]}
         IN  (IF \E r \in results : r.err THEN {[rollout |-> 0, err |-> TRUE]} ELSE {})
                 \cup (IF \E r \in results : ~r.err /\ r.satisfied
                       THEN {[rollout |-> i + 1, err |-> FALSE]}
                       ELSE {})
                 \cup (IF \E r \in results : ~r.err /\ ~r.satisfied
                       THEN rolloutFromInclusive(flag, contextValue, flagContext, i + 1)
                       ELSE {})

RECURSIVE rolloutFrom(_, _, _, _)
\* for i, rollout := range flag.Ruleset.Rollout, from the 0-based index i on: what the
\* loop can return.  The rule of a rollout is evaluated only when the percentage test
\* passes; an error of the evaluation ends the loop (return nil, err), a satisfied rule
\* ends it with the rollout, and otherwise the loop goes on.
rolloutFrom(flag, contextValue, flagContext, i) ==
    IF i >= Len(flag.Ruleset.Rollout) THEN {NoRollout}
    ELSE LET rollout == flag.Ruleset.Rollout[i + 1]
             rolloutHash == normalizedHash(Sprintv(contextValue), rolloutSalt(flag, i))
             results == IF rolloutHash < rollout.RolloutPercentage
                        THEN isRuntimeEvaluationSatisfied(rollout, flagContext)
                        ELSE {[satisfied |-> FALSE, err |-> FALSE]}
         IN  (IF \E r \in results : r.err THEN {[rollout |-> 0, err |-> TRUE]} ELSE {})
                 \cup (IF \E r \in results : ~r.err /\ r.satisfied
                       THEN {[rollout |-> i + 1, err |-> FALSE]}
                       ELSE {})
                 \cup (IF \E r \in results : ~r.err /\ ~r.satisfied
                       THEN rolloutFrom(flag, contextValue, flagContext, i + 1)
                       ELSE {})

\* The results getAssignedRollout can return.
getAssignedRollout(flag, contextValue, flagContext) ==
    rolloutFrom(flag, contextValue, flagContext, 0)

RECURSIVE insertVariant(_, _)
\* v, which stood before every element of sorted, is put in its place: before the first
\* element whose key is not smaller than its own, so that variants of equal keys stay in
\* the order they had.
insertVariant(v, sorted) ==
    IF sorted = <<>> THEN <<v>>
    ELSE IF StrLess(Head(sorted).Key, v.Key)
    THEN <<Head(sorted)>> \o insertVariant(v, Tail(sorted))
    ELSE <<v>> \o sorted

RECURSIVE sortVariants(_)
\* sort.Slice(variants, Key < Key) on fewer than 12 variants, which sort.Slice sorts by
\* insertion: an element moves only past elements of strictly greater keys, so variants
\* of equal keys keep their order.  (From 12 elements on sort.Slice is not stable; the
\* result is the same for distinct keys.)
sortVariants(variants) ==
    IF variants = <<>> THEN <<>>
    ELSE insertVariant(Head(variants), sortVariants(Tail(variants)))

\* The loop over variants that writes the rollout's variantSplits: the array of
\* variants after it.
applySplits(variants, rollout) ==
    IF ~rollout.VariantSplits.present THEN variants
    ELSE [i \in 1..Len(variants) |->
            IF variants[i].Key \in DOMAIN rollout.VariantSplits.m
            THEN [variants[i] EXCEPT !.Split = rollout.VariantSplits.m[variants[i].Key]]
            ELSE variants[i]]

RECURSIVE selectFromInclusive(_, _, _, _)
\* The loop that stops at a cumulative split equal to variantHash as well.
selectFromInclusive(variants, variantHash, cumulative, i) ==
    IF i > Len(variants) THEN Len(variants)
    ELSE LET sum == AddFloat64[cumulative, Float64[variants[i].Split]]
         IN  IF ~LessFloat64[sum, variantHash] THEN i
             ELSE selectFromInclusive(variants, variantHash, sum, i + 1)

RECURSIVE selectFrom(_, _, _, _)
\* The index at which the loop over the variants stops, from index i on with the sum
\* cumulative so far: cumulative += variants[i].Split in float64, and the loop breaks
\* at the first i with variantHash < cumulative; else it ends at the last index (0 for
\* an empty list).
selectFrom(variants, variantHash, cumulative, i) ==
    IF i > Len(variants) THEN Len(variants)
    ELSE LET sum == AddFloat64[cumulative, Float64[variants[i].Split]]
         IN  IF LessFloat64[variantHash, sum] THEN i
             ELSE selectFrom(variants, variantHash, sum, i + 1)

\* The arrays of Variant that a call of getAssignedVariant can reach, by address: the
\* array of the slice flag.Ruleset.Variants, which is part of the published map, and
\* the array that the call allocates.  A memory maps the addresses in use to the
\* contents of their arrays.
FlagArray == "flag.Ruleset.Variants"
CallArray == "make([]Variant)"

\* variants := flag.Ruleset.Variants in place of the make: no array is allocated, the
\* slice is on the flag's own array.
makeNothing(mem, n) == [slice |-> FlagArray, mem |-> mem]

\* make([]Variant, n): a slice on a new array of n zero Variants.
makeVariants(mem, n) ==
    [slice |-> CallArray,
     mem |-> (CallArray :> [i \in 1..n |->
                              [Key |-> <<>>, Value |-> NilVal, IsControl |-> FALSE, Split |-> 0]])
                 @@ mem]

\* copy(dst, src) on slices that span their arrays: the first min(len(dst), len(src))
\* elements of src are written to dst.
copyVariants(mem, dst, src) ==
    [mem EXCEPT ![dst] = [i \in 1..Len(mem[dst]) |->
                             IF i <= Len(mem[src]) THEN mem[src][i] ELSE mem[dst][i]]]

\* getAssignedVariant from the make to the end of the loop over the splits, on the
\* memory that holds the flag's variants: the slice variants and the memory as these
\* statements leave it.  sort.Slice and variants[i].Split = split write to the array
\* of variants.
assignedVariants(flag, rollout) ==
    LET made == makeVariants(FlagArray :> flag.Ruleset.Variants, Len(flag.Ruleset.Variants))
        copied == copyVariants(made.mem, made.slice, FlagArray)
        sorted == [copied EXCEPT ![made.slice] = sortVariants(@)]
    IN  [slice |-> made.slice,
         mem |-> [sorted EXCEPT ![made.slice] = applySplits(@, rollout)]]

getAssignedVariant(flag, contextValue, flagKey, rollout) ==
    LET override == IF rollout.VariantOverride.present
                    THEN getMatchingVariant(rollout.VariantOverride.Key, flag, FALSE)
                    ELSE NoVariant
        storedSalt == IF flag.HashSalt.present THEN flag.HashSalt.v ELSE <<>>
        salt == flagKey \o storedSalt \o <<118, 97, 114, 105, 97, 110, 116>>
        variantHash == normalizedHash(Sprintv(contextValue), salt)
        assigned == assignedVariants(flag, rollout)
        variants == assigned.mem[assigned.slice]
        selected == selectFrom(variants, Float64[variantHash], Float64[0], 1)
    IN  IF override.present THEN override
        ELSE IF selected = 0 THEN NoVariant
        ELSE SomeVariant([VariantKey |-> SomeStr(variants[selected].Key),
                          VariantValue |-> variants[selected].Value,
                          ExperimentID |-> flag.ExperimentID,
                          IsExperimentActive |-> flag.IsExperimentActive,
                          IsQATester |-> NoBool])

----------------------------------------------------------------------------
(* Response bodies of the definitions endpoint and the contexts callers pass *)

FlagF == <<102>>
FlagG == <<103>>
VarA == <<97>>
VarB == <<98>>
User1 == <<117, 49>>

Variant(key, value, split) == [Key |-> key, Value |-> value, IsControl |-> FALSE, Split |-> split]

Rollout(pct, rule, override, splits) ==
    [RolloutPercentage |-> pct, RuntimeEvaluationRule |-> rule,
     VariantOverride |-> override, VariantSplits |-> splits]

ExperimentationFlag(key, context, salt, variants, rollout, test) ==
    [Key |-> key, Context |-> context, HashSalt |-> salt,
     ExperimentID |-> NoStr, IsExperimentActive |-> NoBool,
     Ruleset |-> [Variants |-> variants, Rollout |-> rollout, Test |-> test]]

\* The "flags" arrays the server answers with, as decoded into result.Flags.  Body 1
\* forces variant a of flag f, body 2 forces variant b, gives both variants other values
\* and adds flag g.
Bodies ==
    << << ExperimentationFlag(FlagF, "distinct_id", NoStr,
              << Variant(VarB, StrVal(<<98, 49>>), 50), Variant(VarA, StrVal(<<97, 49>>), 50) >>,
              << Rollout(100, NoRule, Override(VarA), NoSplits) >>, NoTest) >>,
       << ExperimentationFlag(FlagF, "distinct_id", NoStr,
              << Variant(VarB, StrVal(<<98, 50>>), 50), Variant(VarA, StrVal(<<97, 50>>), 50) >>,
              << Rollout(100, NoRule, Override(VarB), NoSplits) >>, NoTest),
          ExperimentationFlag(FlagG, "distinct_id", SomeStr(<<115>>),
              << Variant(VarA, BoolVal(TRUE), 100) >>,
              << Rollout(100, NoRule, NoOverride, NoSplits) >>, NoTest) >> >>

BodyIds == 1..Len(Bodies)

\* The ways a fetch fails: client.Do returns an error, the status is not 200, the body
\* does not decode.
FetchFailures == {"transport", "status", "decode"}

FlagKeys == {FlagF, FlagG}

Contexts ==
    << [k \in {"distinct_id"} |-> StrVal(User1)] >>

\* The fallbackVariant callers pass: SelectedVariant{VariantValue: "fallback"}.
Fallback == [ZeroSelectedVariant EXCEPT !.VariantValue = StrVal(<<102, 98>>)]

----------------------------------------------------------------------------
(* fetchFlagDefinitions: building the map that is published *)

\* flags := make(map); for each flag of result.Flags: sort its variants by key and
\* flags[flag.Key] = flag (a later flag of the same key replaces an earlier one).
buildFlags(resultFlags) ==
    [k \in {resultFlags[i].Key : i \in 1..Len(resultFlags)} |->
        LET last == CHOOSE i \in 1..Len(resultFlags) :
                        /\ resultFlags[i].Key = k
                        /\ \A j \in (i + 1)..Len(resultFlags) : resultFlags[j].Key # k
            flag == resultFlags[last]
        IN  [flag EXCEPT !.Ruleset.Variants = sortVariants(@)]]

\* The map objects a *map[string]*ExperimentationFlag can point to: 0 is emptyMap of
\* NewLocalFeatureFlagsProvider, i the map built from body i.
Maps == [i \in 0..Len(Bodies) |-> IF i = 0 THEN <<>> ELSE buildFlags(Bodies[i])]

----------------------------------------------------------------------------
(* GetVariant and GetAllVariants on a given map, as one sequential computation *)

\* GetVariant from the lookup of the flag up to the choice of the rollout, on the map
\* that flags points to: either the call is decided ("done", with the variant it
\* returns and whether it returns an error with it) or a rollout is assigned and
\* getAssignedVariant is still to run.  The set has every outcome the call can have.
lookupAndAssignRollout(flags, flagKey, fallbackVariant, flagContext) ==
    LET undecided == [done |-> TRUE, variant |-> fallbackVariant, rollout |-> 0, err |-> FALSE]
    IN  IF flagKey \notin DOMAIN flags THEN {undecided}
        ELSE LET flag == flags[flagKey]
             IN  IF flag.Context \notin DOMAIN flagContext THEN {undecided}
                 ELSE LET contextValue == flagContext[flag.Context]
                          testVariant == getVariantOverrideForTestUser(flag, flagContext)
                      IN  IF testVariant.present
                          THEN {[done |-> TRUE, variant |-> testVariant.v, rollout |-> 0,
                                 err |-> FALSE]}
                          ELSE {IF assigned.err THEN [undecided EXCEPT !.err = TRUE]
                                ELSE IF assigned.rollout = 0 THEN undecided
                                ELSE [done |-> FALSE, variant |-> fallbackVariant,
                                      rollout |-> assigned.rollout, err |-> FALSE] :
                                    assigned \in getAssignedRollout(flag, contextValue, flagContext)}

\* The rest of GetVariant once a rollout is assigned: the variant of the rollout, or the
\* fallback when getAssignedVariant returns nil.
assignVariant(flag, flagKey, fallbackVariant, flagContext, rollout) ==
    LET selectedVariant == getAssignedVariant(flag, flagContext[flag.Context], flagKey,
                                              flag.Ruleset.Rollout[rollout])
    IN  IF selectedVariant.present THEN selectedVariant.v ELSE fallbackVariant

\* What GetVariant can return when the whole call reads the one map flags.
GetVariantOn(flags, flagKey, fallbackVariant, flagContext) ==
    {IF first.done THEN first.variant
     ELSE assignVariant(flags[flagKey], flagKey, fallbackVariant, flagContext, first.rollout) :
        first \in lookupAndAssignRollout(flags, flagKey, fallbackVariant, flagContext)}

\* What GetAllVariants can return when the whole call reads the one map flags: for every
\* flag one of the variants GetVariant can return, the flags left out whose variant has
\* no key.
GetAllVariantsOn(flags, flagContext) ==
    LET outcomes == [k \in DOMAIN flags |->
                        GetVariantOn(flags, k, ZeroSelectedVariant, flagContext)]
    IN  {[k \in {j \in DOMAIN flags : all[j].VariantKey.present} |-> all[k]] :
            all \in Choices(DOMAIN flags, outcomes)}

----------------------------------------------------------------------------
(* The provider and the goroutines that use it *)

\* The pollForDefinitions goroutines that may be alive at the same time.
MaxTasks == 3

\* The goroutines of the application that call the provider, and those of them that
\* also evaluate flags.
Callers == {1, 2}
Readers == {1}

\* Where a pollForDefinitions goroutine can be, with fetchFlagDefinitions' local flags.
TaskLocals == [pc : {"select", "fetch", "log", "store", "ready"}, built : 0..Len(Bodies)]

VARIABLES
    EnablePolling,    \* config.EnablePolling
    clientTimeout,    \* p.client.Timeout, in seconds; 0 is no timeout
    flagDefinitions,  \* atomic.Pointer: the index in Maps of the map it points to
    areFlagsReady,    \* atomic.Bool
    pollingStarted,   \* bool
    stopPolling,      \* chan struct{}: TRUE once closed
    pollingStopped,   \* chan struct{}: TRUE once closed
    panicked,         \* a goroutine panicked: the process is gone
    pc,               \* where each caller is
    built,            \* fetchFlagDefinitions' local flags, per caller
    tasks,            \* how many pollForDefinitions goroutines are at each TaskLocal
    gv,               \* locals of a caller's GetVariant
    gav,              \* locals of a caller's GetAllVariants
    ret               \* what a caller's call returned, while pc is "done"

\* A provider that one goroutine evaluates flags on (specification SpecEval).
VARIABLES
    tracker,          \* featureFlagsProvider.tracker is not nil
    published,        \* the map that flagDefinitions points to, as it is in memory now
    ev,               \* the map as it was published (by its parameters), the call made and
                      \* its result
    tracked           \* the invocations of the tracker made by the call, in order

\* Calls of normalizedHash on their own (specification SpecHash).
VARIABLES
    hashed            \* the arguments key and salt, the values returned so far, and the
                      \* rollout assigned to key as subject of a flag with salt as hashSalt

evalVars == <<tracker, published, ev, tracked, hashed>>

vars == <<revision, EnablePolling, clientTimeout, flagDefinitions, areFlagsReady, pollingStarted, stopPolling,
          pollingStopped, panicked, pc, built, tasks, gv, gav, ret, tracker, published, ev,
          tracked, hashed>>

\* What is fixed once the provider is built: the revision of its code and what
\* NewLocalFeatureFlagsProvider takes from its config.
config == <<revision, EnablePolling, clientTimeout>>

provider == <<flagDefinitions, areFlagsReady, pollingStarted, stopPolling, pollingStopped>>

NoGv == [key |-> <<>>, ctx |-> 0, flags |-> 0, rollout |-> 0, fallback |-> ZeroSelectedVariant]
NoGav == [active |-> FALSE, ctx |-> 0, flags |-> 0, flagKeys |-> {}, variants |-> <<>>]
\* op: the call; err: it returned an error; launched: it ran the go statement; waited: it
\* received from pollingStopped; flags: the map its Load returned; swapped: another map
\* was published by the time getAssignedVariant ran.
NoRet == [op |-> "", err |-> FALSE, launched |-> FALSE, waited |-> FALSE, key |-> <<>>,
          ctx |-> 0, flags |-> 0, swapped |-> FALSE, variant |-> ZeroSelectedVariant,
          variants |-> <<>>]

RECURSIVE SumOver(_, _)
SumOver(f, S) ==
    IF S = {} THEN 0
    ELSE LET x == CHOOSE y \in S : TRUE IN f[x] + SumOver(f, S \ {x})

\* The number of pollForDefinitions goroutines that exist.
NumTasks == SumOver(tasks, TaskLocals)

\* A goroutine that runs fetchFlagDefinitions: a caller (caller > 0) or a task.
CallerThread(c) == [caller |-> c, pc |-> pc[c], built |-> built[c]]
TaskThread(s) == [caller |-> 0, pc |-> s.pc, built |-> s.built]
Threads ==
    {CallerThread(c) : c \in Callers} \cup {TaskThread(s) : s \in {x \in TaskLocals : tasks[x] > 0}}

\* Goroutine t goes to p with fetchFlagDefinitions' flags = b.
Goto(t, p, b) ==
    IF t.caller # 0
    THEN /\ pc' = [pc EXCEPT ![t.caller] = p]
         /\ built' = [built EXCEPT ![t.caller] = b]
         /\ tasks' = tasks
    ELSE /\ pc' = pc
         /\ built' = built
         /\ tasks' = [tasks EXCEPT ![ [pc |-> t.pc, built |-> t.built] ] = @ - 1,
                                   ![ [pc |-> p, built |-> b] ] = @ + 1]

\* defaultRequestTimeout = 10 * time.Second, in seconds.
defaultRequestTimeout == 10

\* NewLocalFeatureFlagsProvider with a nil config.HTTPClient: both channels open, the
\* empty map published.  The client is built with Timeout: config.RequestTimeout before
\* a RequestTimeout of 0 is replaced by the default, so a config without RequestTimeout
\* gives a client without timeout, and a config with a RequestTimeout (of 10 seconds
\* here) a client with it.  The callers in active are the goroutines that use the
\* provider.  The provider is of the revision src/flags/localFlags.go, whose
\* pollingStarted is a plain bool.
InitFor(active) ==
    /\ revision = RevLocalFlags
    /\ EnablePolling \in BOOLEAN
    /\ clientTimeout \in {0, defaultRequestTimeout}
    /\ flagDefinitions = 0
    /\ areFlagsReady = FALSE
    /\ pollingStarted = FALSE
    /\ stopPolling = FALSE
    /\ pollingStopped = FALSE
    /\ panicked = FALSE
    /\ pc = [c \in Callers |-> IF c \in active THEN "idle" ELSE "off"]
    /\ built = [c \in Callers |-> 0]
    /\ tasks = [s \in TaskLocals |-> 0]
    /\ gv = [c \in Callers |-> NoGv]
    /\ gav = [c \in Callers |-> NoGav]
    /\ ret = [c \in Callers |-> NoRet]

\* No call of the evaluation specification: a provider built with a nil tracker.
NoEv == [salted |-> FALSE, rollouts |-> <<>>, test |-> 0, op |-> "", key |-> <<>>, ctx |-> 0,
         report |-> FALSE, variant |-> ZeroSelectedVariant, value |-> NilVal,
         enabled |-> FALSE, variants |-> <<>>, err |-> FALSE]

\* No call of normalizedHash on its own.
NoHash == [key |-> <<>>, salt |-> <<>>, calls |-> <<>>, assigned |-> <<>>]

NoEvaluation ==
    tracker = FALSE /\ published = <<>> /\ ev = NoEv /\ tracked = <<>> /\ hashed = NoHash

Init == InitFor(Callers) /\ NoEvaluation

\* The provider used by one goroutine only: every call follows the return of the last.
InitSeq == InitFor(Readers) /\ NoEvaluation

\* A caller's call returns r.
Return(c, r) ==
    /\ pc' = [pc EXCEPT ![c] = "done"]
    /\ ret' = [ret EXCEPT ![c] = r]

\* The caller goes on after a call.
Continue(c) ==
    /\ ~panicked
    /\ pc[c] = "done"
    /\ pc' = [pc EXCEPT ![c] = "idle"]
    /\ ret' = [ret EXCEPT ![c] = NoRet]
    /\ UNCHANGED <<config, evalVars, provider, panicked, built, tasks, gv, gav>>

(* fetchFlagDefinitions, run by a caller inside StartPollingForDefinitions or by a task *)

\* A failed fetch that publishes an empty map and withdraws readiness.
fetchErrorClears == flagDefinitions' = 0 /\ areFlagsReady' = FALSE

\* A failed fetch that keeps the map and withdraws readiness.
fetchErrorNotReady == flagDefinitions' = flagDefinitions /\ areFlagsReady' = FALSE

\* What a failed fetch does to the provider: nothing, it returns the error.
fetchError == UNCHANGED <<flagDefinitions, areFlagsReady>>

\* A failed fetch after which StartPollingForDefinitions goes on to its polling check.
FetchFailedContinues(t) ==
    /\ ~panicked
    /\ t.pc = "fetch"
    /\ Goto(t, IF t.caller # 0 THEN "started" ELSE "log", 0)
    /\ fetchError
    /\ UNCHANGED <<config, evalVars, pollingStarted, stopPolling, pollingStopped, panicked, gv, gav,
                   ret>>

\* The request fails, the status is not 200 or the body does not decode: the error is
\* returned; StartPollingForDefinitions returns it wrapped, pollForDefinitions logs it.
FetchFailed(t) ==
    /\ ~panicked
    /\ t.pc = "fetch"
    /\ \E why \in FetchFailures :
        IF t.caller # 0
        THEN /\ Goto(t, "done", 0)
             /\ ret' = [ret EXCEPT ![t.caller] = [NoRet EXCEPT !.op = "start", !.err = TRUE]]
        ELSE /\ Goto(t, "log", 0)
             /\ ret' = ret
    /\ fetchError
    /\ UNCHANGED <<config, evalVars, pollingStarted, stopPolling, pollingStopped, panicked, gv, gav>>

\* A fetch that publishes the map as soon as the body is decoded, before it is complete.
FetchDecodedPublishes(t) ==
    /\ ~panicked
    /\ t.pc = "fetch"
    /\ \E b \in BodyIds : Goto(t, "store", b) /\ flagDefinitions' = b
    /\ UNCHANGED <<config, evalVars, areFlagsReady, pollingStarted, stopPolling, pollingStopped,
                   panicked, gv, gav, ret>>

\* A fetch that sets the ready flag as soon as the body is decoded, before the Store.
FetchDecodedSetsReady(t) ==
    /\ ~panicked
    /\ t.pc = "fetch"
    /\ \E b \in BodyIds : Goto(t, "store", b)
    /\ areFlagsReady' = TRUE
    /\ UNCHANGED <<config, evalVars, flagDefinitions, pollingStarted, stopPolling, pollingStopped,
                   panicked, gv, gav, ret>>

\* The response is 200 and decodes to body b: the new map is built.
FetchDecoded(t) ==
    /\ ~panicked
    /\ t.pc = "fetch"
    /\ \E b \in BodyIds : Goto(t, "store", b)
    /\ UNCHANGED <<config, evalVars, provider, panicked, gv, gav, ret>>

\* p.flagDefinitions.Store(&flags)
FetchStore(t) ==
    /\ ~panicked
    /\ t.pc = "store"
    /\ flagDefinitions' = t.built
    /\ Goto(t, "ready", 0)
    /\ UNCHANGED <<config, evalVars, areFlagsReady, pollingStarted, stopPolling, pollingStopped,
                   panicked, gv, gav, ret>>

\* p.areFlagsReady.Store(true); return nil
FetchReady(t) ==
    /\ ~panicked
    /\ t.pc = "ready"
    /\ areFlagsReady' = TRUE
    /\ Goto(t, IF t.caller # 0 THEN "started" ELSE "select", 0)
    /\ UNCHANGED <<config, evalVars, flagDefinitions, pollingStarted, stopPolling, pollingStopped,
                   panicked, gv, gav, ret>>

(* StartPollingForDefinitions *)

\* The call begins: fetchFlagDefinitions sends its request.
StartPollingForDefinitions(c) ==
    /\ ~panicked
    /\ pc[c] = "idle"
    /\ pc' = [pc EXCEPT ![c] = "fetch"]
    /\ UNCHANGED <<config, evalVars, provider, panicked, built, tasks, gv, gav, ret>>

\* A polling check that does not look at pollingStarted.
StartCheckAlways(c) ==
    /\ ~panicked
    /\ pc[c] = "started"
    /\ IF EnablePolling
       THEN pc' = [pc EXCEPT ![c] = "set"] /\ ret' = ret
       ELSE Return(c, [NoRet EXCEPT !.op = "start"])
    /\ UNCHANGED <<config, evalVars, provider, panicked, built, tasks, gv, gav>>

\* if p.config.EnablePolling && !p.pollingStarted: the read of the condition.
StartCheck(c) ==
    /\ ~panicked
    /\ pc[c] = "started"
    /\ IF EnablePolling /\ ~pollingStarted
       THEN pc' = [pc EXCEPT ![c] = "set"] /\ ret' = ret
       ELSE Return(c, [NoRet EXCEPT !.op = "start"])
    /\ UNCHANGED <<config, evalVars, provider, panicked, built, tasks, gv, gav>>

\* p.pollingStarted = true
StartSet(c) ==
    /\ ~panicked
    /\ pc[c] = "set"
    /\ pollingStarted' = TRUE
    /\ pc' = [pc EXCEPT ![c] = "go"]
    /\ UNCHANGED <<config, evalVars, flagDefinitions, areFlagsReady, stopPolling, pollingStopped,
                   panicked, built, tasks, gv, gav, ret>>

\* go p.pollForDefinitions(ctx); return nil
StartGo(c) ==
    /\ ~panicked
    /\ pc[c] = "go"
    /\ NumTasks < MaxTasks
    /\ tasks' = [tasks EXCEPT ![ [pc |-> "select", built |-> 0] ] = @ + 1]
    /\ Return(c, [NoRet EXCEPT !.op = "start", !.launched = TRUE])
    /\ UNCHANGED <<config, evalVars, provider, panicked, built, gv, gav>>

(* pollForDefinitions *)

\* case <-ticker.C: fetchFlagDefinitions sends its request.
PollTick(t) ==
    /\ ~panicked
    /\ t.caller = 0
    /\ t.pc = "select"
    /\ Goto(t, "fetch", 0)
    /\ UNCHANGED <<config, evalVars, provider, panicked, gv, gav, ret>>

\* A pollForDefinitions that returns when a fetch failed, after logging the error.
PollLogExits(t) ==
    /\ ~panicked
    /\ t.caller = 0
    /\ t.pc = "log"
    /\ pollingStopped' = TRUE
    /\ tasks' = [tasks EXCEPT ![ [pc |-> t.pc, built |-> t.built] ] = @ - 1]
    /\ UNCHANGED <<config, evalVars, flagDefinitions, areFlagsReady, pollingStarted, stopPolling,
                   panicked, pc, built, gv, gav, ret>>

\* log.Printf("Error polling for flag definitions: %v", err), and the loop goes on.
PollLog(t) ==
    /\ ~panicked
    /\ t.caller = 0
    /\ t.pc = "log"
    /\ Goto(t, "select", 0)
    /\ UNCHANGED <<config, evalVars, provider, panicked, gv, gav, ret>>

\* case <-p.stopPolling: return, and the deferred close(p.pollingStopped) runs; closing
\* a closed channel panics.
PollStop(t) ==
    /\ ~panicked
    /\ t.caller = 0
    /\ t.pc = "select"
    /\ stopPolling
    /\ IF pollingStopped
       THEN panicked' = TRUE /\ pollingStopped' = pollingStopped
       ELSE panicked' = panicked /\ pollingStopped' = TRUE
    /\ tasks' = [tasks EXCEPT ![ [pc |-> t.pc, built |-> t.built] ] = @ - 1]
    /\ UNCHANGED <<config, evalVars, flagDefinitions, areFlagsReady, pollingStarted, stopPolling,
                   pc, built, gv, gav, ret>>

(* StopPollingForDefinitions *)

\* A stop that does not look at pollingStarted.
StopAlways(c) ==
    /\ ~panicked
    /\ pc[c] = "idle"
    /\ pc' = [pc EXCEPT ![c] = "close"]
    /\ UNCHANGED <<config, evalVars, provider, panicked, built, tasks, gv, gav, ret>>

\* if p.pollingStarted: the read of the condition.
StopPollingForDefinitions(c) ==
    /\ ~panicked
    /\ pc[c] = "idle"
    /\ IF pollingStarted
       THEN pc' = [pc EXCEPT ![c] = "close"] /\ ret' = ret
       ELSE Return(c, [NoRet EXCEPT !.op = "stop"])
    /\ UNCHANGED <<config, evalVars, provider, panicked, built, tasks, gv, gav>>

\* close(p.stopPolling); closing a closed channel panics.
StopClose(c) ==
    /\ ~panicked
    /\ pc[c] = "close"
    /\ IF stopPolling
       THEN panicked' = TRUE /\ stopPolling' = stopPolling /\ pc' = pc
       ELSE panicked' = panicked /\ stopPolling' = TRUE /\ pc' = [pc EXCEPT ![c] = "wait"]
    /\ UNCHANGED <<config, evalVars, flagDefinitions, areFlagsReady, pollingStarted, pollingStopped,
                   built, tasks, gv, gav, ret>>

\* <-p.pollingStopped: the receive returns once the channel is closed.
StopWait(c) ==
    /\ ~panicked
    /\ pc[c] = "wait"
    /\ pollingStopped
    /\ pc' = [pc EXCEPT ![c] = "clear"]
    /\ UNCHANGED <<config, evalVars, provider, panicked, built, tasks, gv, gav, ret>>

\* p.pollingStarted = false; return
StopClear(c) ==
    /\ ~panicked
    /\ pc[c] = "clear"
    /\ pollingStarted' = FALSE
    /\ Return(c, [NoRet EXCEPT !.op = "stop", !.waited = TRUE])
    /\ UNCHANGED <<config, evalVars, flagDefinitions, areFlagsReady, stopPolling, pollingStopped,
                   panicked, built, tasks, gv, gav>>

(* GetVariant and GetAllVariants *)

\* A flag looked up again, in the map that is published when getAssignedVariant runs.
flagOfReloaded(c) ==
    IF gv[c].key \in DOMAIN Maps[flagDefinitions]
    THEN Maps[flagDefinitions][gv[c].key]
    ELSE Maps[gv[c].flags][gv[c].key]

\* The flag that GetVariant's local variable flag points to: looked up once, in the map
\* the call loaded.
flagOf(c) == Maps[gv[c].flags][gv[c].key]

\* GetVariant returns variant and, with err, an error: to the caller, or into the loop
\* of GetAllVariants, which returns nil and the error, or else keeps the variant when
\* its VariantKey is not nil.
gvReturn(c, variant, err, g) ==
    IF gav[c].active /\ err
    THEN /\ gav' = [gav EXCEPT ![c] = NoGav]
         /\ Return(c, [NoRet EXCEPT !.op = "GetAllVariants", !.ctx = gav[c].ctx,
                                    !.flags = gav[c].flags, !.err = TRUE])
    ELSE IF gav[c].active
    THEN /\ gav' = [gav EXCEPT ![c].variants =
                        IF variant.VariantKey.present THEN (g.key :> variant) @@ @ ELSE @,
                               ![c].flagKeys = @ \ {g.key}]
         /\ pc' = [pc EXCEPT ![c] = "loop"]
         /\ ret' = ret
    ELSE /\ gav' = gav
         /\ Return(c, [NoRet EXCEPT !.op = "GetVariant", !.key = g.key, !.ctx = g.ctx,
                                    !.flags = g.flags, !.variant = variant, !.err = err,
                                    !.swapped = (g.rollout # 0 /\ g.flags # flagDefinitions)])

\* GetVariant from flags := p.flagDefinitions.Load() to the choice of the rollout.
gvBegin(c, flagKey, ctx, fallbackVariant) ==
    LET g == [key |-> flagKey, ctx |-> ctx, flags |-> flagDefinitions, rollout |-> 0,
              fallback |-> fallbackVariant]
    IN  \E first \in lookupAndAssignRollout(Maps[g.flags], flagKey, fallbackVariant,
                                             Contexts[ctx]) :
            IF first.done
            THEN gv' = gv /\ gvReturn(c, first.variant, first.err, g)
            ELSE /\ gv' = [gv EXCEPT ![c] = [g EXCEPT !.rollout = first.rollout]]
                 /\ gav' = gav
                 /\ pc' = [pc EXCEPT ![c] = "variant"]
                 /\ ret' = ret

\* A caller calls GetVariant(ctx, flagKey, Fallback, flagContext, reportExposure).
GetVariant(c) ==
    /\ ~panicked
    /\ c \in Readers
    /\ pc[c] = "idle"
    /\ \E flagKey \in FlagKeys, ctx \in 1..Len(Contexts) : gvBegin(c, flagKey, ctx, Fallback)
    /\ UNCHANGED <<config, evalVars, provider, panicked, built, tasks>>

\* selectedVariant = p.getAssignedVariant(flag, contextValue, flagKey, rollout); return
GetVariantAssign(c) ==
    /\ ~panicked
    /\ pc[c] = "variant"
    /\ gv' = [gv EXCEPT ![c] = NoGv]
    /\ gvReturn(c, assignVariant(flagOf(c), gv[c].key, gv[c].fallback, Contexts[gv[c].ctx],
                                 gv[c].rollout), FALSE, gv[c])
    /\ UNCHANGED <<config, evalVars, provider, panicked, built, tasks>>

\* A caller calls GetAllVariants: flags := p.flagDefinitions.Load() and the keys of
\* *flags are collected.
GetAllVariants(c) ==
    /\ ~panicked
    /\ c \in Readers
    /\ pc[c] = "idle"
    /\ \E ctx \in 1..Len(Contexts) :
        gav' = [gav EXCEPT ![c] = [active |-> TRUE, ctx |-> ctx, flags |-> flagDefinitions,
                                   flagKeys |-> DOMAIN Maps[flagDefinitions],
                                   variants |-> <<>>]]
    /\ pc' = [pc EXCEPT ![c] = "loop"]
    /\ UNCHANGED <<config, evalVars, provider, panicked, built, tasks, gv, ret>>

\* for _, flagKey := range flagKeys: variant := p.GetVariant(ctx, flagKey,
\* SelectedVariant{}, flagContext, false); the keys come in the map's iteration order.
GetAllNext(c) ==
    /\ ~panicked
    /\ pc[c] = "loop"
    /\ \E flagKey \in gav[c].flagKeys : gvBegin(c, flagKey, gav[c].ctx, ZeroSelectedVariant)
    /\ UNCHANGED <<config, evalVars, provider, panicked, built, tasks>>

\* return variants
GetAllReturn(c) ==
    /\ ~panicked
    /\ pc[c] = "loop"
    /\ gav[c].flagKeys = {}
    /\ gav' = [gav EXCEPT ![c] = NoGav]
    /\ Return(c, [NoRet EXCEPT !.op = "GetAllVariants", !.ctx = gav[c].ctx,
                               !.flags = gav[c].flags, !.variants = gav[c].variants])
    /\ UNCHANGED <<config, evalVars, provider, panicked, built, tasks, gv>>

----------------------------------------------------------------------------

Next ==
    \/ \E t \in Threads : FetchFailed(t)
    \/ \E t \in Threads : FetchDecoded(t)
    \/ \E t \in Threads : FetchStore(t)
    \/ \E t \in Threads : FetchReady(t)
    \/ \E c \in Callers : StartPollingForDefinitions(c)
    \/ \E c \in Callers : StartCheck(c)
    \/ \E c \in Callers : StartSet(c)
    \/ \E c \in Callers : StartGo(c)
    \/ \E t \in Threads : PollTick(t)
    \/ \E t \in Threads : PollLog(t)
    \/ \E t \in Threads : PollStop(t)
    \/ \E c \in Callers : StopPollingForDefinitions(c)
    \/ \E c \in Callers : StopClose(c)
    \/ \E c \in Callers : StopWait(c)
    \/ \E c \in Callers : StopClear(c)
    \/ \E c \in Callers : GetVariant(c)
    \/ \E c \in Callers : GetVariantAssign(c)
    \/ \E c \in Callers : GetAllVariants(c)
    \/ \E c \in Callers : GetAllNext(c)
    \/ \E c \in Callers : GetAllReturn(c)
    \/ \E c \in Callers : Continue(c)

Spec == Init /\ [][Next]_vars

SpecSeq == InitSeq /\ [][Next]_vars

\* p.client.Do(req) of goroutine t returns, with a response or an error.  A client with
\* a timeout returns in the end; a client without one (Timeout 0) may wait for the
\* server for ever, and nothing makes it return.
ClientDoReturns(t) ==
    /\ clientTimeout # 0
    /\ FetchFailed(t) \/ FetchDecoded(t)

\* A step of a pollForDefinitions goroutine that the goroutine takes in the end.
TaskStep ==
    \E t \in Threads :
        /\ t.caller = 0
        /\ \/ ClientDoReturns(t) \/ FetchStore(t) \/ FetchReady(t)
           \/ PollTick(t) \/ PollLog(t) \/ PollStop(t)

\* A step of caller c inside a call it has made that the caller takes in the end.
CallStep(c) ==
    \/ \E t \in Threads :
          /\ t.caller = c
          /\ ClientDoReturns(t) \/ FetchStore(t) \/ FetchReady(t)
    \/ StartCheck(c) \/ StartSet(c) \/ StartGo(c)
    \/ StopClose(c) \/ StopWait(c) \/ StopClear(c)
    \/ GetVariantAssign(c) \/ GetAllNext(c) \/ GetAllReturn(c)

\* The scheduler runs every goroutine that can take a step, a request of
\* fetchFlagDefinitions made by a client with a timeout completes, the ticker keeps
\* ticking, and a select that finds stopPolling closed again and again takes that case
\* in the end, as it chooses among the ready cases at random.
Fairness ==
    /\ \A c \in Callers : WF_vars(CallStep(c))
    /\ WF_vars(TaskStep)
    /\ SF_vars(\E t \in Threads : PollStop(t))

\* The provider used by one goroutine, under a fair scheduler.
SpecLive == InitSeq /\ [][Next]_vars /\ Fairness

----------------------------------------------------------------------------
(* Flag evaluation by one goroutine on one published map: inputs *)

FlagH == <<104>>
VarUpperB == <<66>>
VarC == <<99>>
VarZz == <<122, 122>>
VarN == <<110>>
User3 == <<117, 51>>
UserQa == <<113, 97>>
Device1 == <<100, 49>>
PropPlan == <<80, 108, 97, 110>>
PropPremium == <<80, 114, 101, 109, 105, 117, 109>>
PropFree == <<102, 114, 101, 101>>
PropUser == <<85, 115, 101, 114>>
PropName == <<78, 97, 109, 101>>
PropJohn == <<74, 111, 104, 110>>
User48 == <<117, 115, 101, 114, 45, 52, 56>>

\* The variants of flag f as the server lists them: a = "va" (30%), c = "true" (40%),
\* B = true (30%).
EvalVariants ==
    << Variant(VarA, StrVal(<<118, 97>>), 30), Variant(VarC, StrVal(<<116, 114, 117, 101>>), 40),
       Variant(VarUpperB, BoolVal(TRUE), 30) >>

\* The rollouts the rollout list of flag f is made of.  Percentages and splits are in
\* hundredths.  Under the last one the splits of B and a add up to 0.30000000000000004.
RolloutPool ==
    << Rollout(100, NoRule, NoOverride, NoSplits),
       Rollout(50, NoRule, Override(VarB), NoSplits),
       Rollout(100, Rule("==", PropPlan, PropPremium), Override(VarC), NoSplits),
       Rollout(100, Rule("bad", PropPlan, PropPremium), NoOverride, NoSplits),
       Rollout(100, Rule("var", PropPlan, PropPremium), NoOverride, NoSplits),
       Rollout(0, NoRule, Override(VarA), NoSplits),
       Rollout(100, NoRule, Override(VarZz), Splits(VarUpperB :> 50 @@ VarA :> 50)),
       Rollout(50, NoRule, NoOverride, Splits(VarUpperB :> 10 @@ VarA :> 10 @@ VarC :> 10)),
       Rollout(100, NoRule, NoOverride, Splits(VarUpperB :> 10 @@ VarA :> 20 @@ VarC :> 70)) >>

\* The longest rollout list of flag f.
MaxRollouts == 2

RolloutLists == UNION {[1..n -> 1..Len(RolloutPool)] : n \in 0..MaxRollouts}

\* ruleset.test of flag f: absent, qa -> "b" (variant B in another case), qa -> "zz" (no
\* such variant).
TestPool == << NoTest, TestUsers(UserQa :> VarB), TestUsers(UserQa :> VarZz) >>

\* "exp-123", the experiment_id of flag g.
ExpId == <<101, 120, 112, 45, 49, 50, 51>>

\* The map with flag f built from the parameters in e and the fixed flag g, whose context
\* attribute is device_id, whose variants are a = true (100%) and n = 1 (0%), whose test
\* users map qa to n and which belongs to the active experiment exp-123; flag f has no
\* experiment.
EvalMap(e) ==
    buildFlags(
        << ExperimentationFlag(FlagF, "distinct_id",
               IF e.salted THEN SomeStr(<<115>>) ELSE NoStr, EvalVariants,
               [i \in 1..Len(e.rollouts) |-> RolloutPool[e.rollouts[i]]], TestPool[e.test]),
           [ExperimentationFlag(FlagG, "device_id", NoStr,
               << Variant(VarN, IntVal(1), 0), Variant(VarA, BoolVal(TRUE), 100) >>,
               << Rollout(100, NoRule, NoOverride, NoSplits) >>,
               TestUsers(UserQa :> VarN))
            EXCEPT !.ExperimentID = SomeStr(ExpId), !.IsExperimentActive = SomeBool(TRUE)] >>)

EvalKeys == {FlagF, FlagG, FlagH}

\* The FlagContext values callers pass.  The custom_properties of the seventh have a map
\* with a slice in it, {"plan": "free", "User": {"Name": ["John", 7]}}; those of the last
\* have two keys that differ in case only, {"Plan": "Premium", "plan": "free"}.
EvalContexts ==
    << "distinct_id" :> StrVal(User1),
       "distinct_id" :> StrVal(User3),
       "distinct_id" :> StrVal(UserQa),
       <<>>,
       "distinct_id" :> IntVal(7),
       "distinct_id" :> StrVal(User1) @@ "custom_properties" :> MapVal(PropPlan :> StrVal(PropPremium)),
       "distinct_id" :> StrVal(User1) @@ "custom_properties" :>
           MapVal(ToLower(PropPlan) :> StrVal(PropFree)
                  @@ PropUser :> MapVal(PropName :> SliceVal(<<StrVal(PropJohn), IntVal(7)>>))),
       "distinct_id" :> StrVal(User1) @@ "custom_properties" :> StrVal(PropPremium),
       "distinct_id" :> StrVal(UserQa) @@ "device_id" :> StrVal(Device1)
           @@ "custom_properties" :> MapVal(PropPlan :> StrVal(PropPremium)),
       "device_id" :> StrVal(Device1),
       "distinct_id" :> StrVal(User1) @@ "device_id" :> StrVal(Device1),
       "distinct_id" :> StrVal(User48),
       "distinct_id" :> StrVal(User1) @@ "custom_properties" :>
           MapVal(PropPlan :> StrVal(PropPremium) @@ ToLower(PropPlan) :> StrVal(PropFree)) >>

\* The fallbackVariant passed to GetVariant: a variant with a key and a value.
EvalFallback ==
    [ZeroSelectedVariant EXCEPT !.VariantKey = SomeStr(<<102, 98>>),
                                !.VariantValue = StrVal(<<102, 98>>)]

\* The fallbackValue passed to GetVariantValue.
EvalFallbackValue == StrVal(<<102, 98>>)

\* The variants callers pass to TrackExposureEvent: variant a as GetVariant returns it
\* for a flag without experiment, and variant B of an experiment, marked as a QA tester's.
TrackVariants ==
    << [ZeroSelectedVariant EXCEPT !.VariantKey = SomeStr(VarA), !.VariantValue = BoolVal(TRUE)],
       [ZeroSelectedVariant EXCEPT !.VariantKey = SomeStr(VarUpperB),
                                   !.VariantValue = BoolVal(TRUE),
                                   !.ExperimentID = SomeStr(ExpId),
                                   !.IsExperimentActive = SomeBool(FALSE),
                                   !.IsQATester = SomeBool(TRUE)] >>

----------------------------------------------------------------------------
(* Flag evaluation by one goroutine on one published map: the calls *)

exposureEventName == "$experiment_started"

\* trackExposure that marks every exposure as a QA tester's.
trackExposureMarksQa(flagKey, variant, flagContext, latency, trk) ==
    IF ~("distinct_id" \in DOMAIN flagContext /\ flagContext["distinct_id"].type = "string")
       \/ ~trk
    THEN <<>>
    ELSE << [distinctID |-> flagContext["distinct_id"].str,
             eventName |-> exposureEventName,
             properties |->
                 [k \in {"Experiment name", "Variant name", "$experiment_type",
                         "Flag evaluation mode", "$experiment_id", "$is_experiment_active",
                         "$is_qa_tester"} |->
                     CASE k = "Experiment name" -> StrVal(flagKey)
                       [] k = "Variant name" -> variant.VariantKey
                       [] k = "$experiment_type" -> "feature_flag"
                       [] k = "Flag evaluation mode" -> "local"
                       [] k = "$experiment_id" -> StrVal(variant.ExperimentID.v)
                       [] k = "$is_experiment_active" -> BoolVal(variant.IsExperimentActive.v)
                       [] OTHER -> BoolVal(TRUE)]] >>

\* featureFlagsProvider.trackExposure: the invocations of p.tracker it makes.  latency
\* tells whether the latency pointer is non-nil; the measured value is not modelled.
trackExposure(flagKey, variant, flagContext, latency, trk) ==
    IF ~("distinct_id" \in DOMAIN flagContext /\ flagContext["distinct_id"].type = "string")
       \/ ~trk
    THEN <<>>
    ELSE LET keys == {"Experiment name", "Variant name", "$experiment_type",
                      "Flag evaluation mode"}
                     \cup (IF variant.ExperimentID.present THEN {"$experiment_id"} ELSE {})
                     \cup (IF variant.IsExperimentActive.present
                           THEN {"$is_experiment_active"} ELSE {})
                     \cup (IF variant.IsQATester.present THEN {"$is_qa_tester"} ELSE {})
                     \cup (IF latency THEN {"Variant fetch latency (ms)"} ELSE {})
             properties ==
                 [k \in keys |->
                     CASE k = "Experiment name" -> StrVal(flagKey)
                       [] k = "Variant name" -> variant.VariantKey
                       [] k = "$experiment_type" -> "feature_flag"
                       [] k = "Flag evaluation mode" -> "local"
                       [] k = "$experiment_id" -> StrVal(variant.ExperimentID.v)
                       [] k = "$is_experiment_active" -> BoolVal(variant.IsExperimentActive.v)
                       [] k = "$is_qa_tester" -> BoolVal(variant.IsQATester.v)
                       [] OTHER -> "latency"]
         IN  << [distinctID |-> flagContext["distinct_id"].str,
                 eventName |-> exposureEventName,
                 properties |-> properties] >>

\* GetVariant up to "if selectedVariant != nil" for a flag of the map and a context with
\* the flag's attribute but no test user's variant: the rollout is assigned and then
\* the variant.  selectedVariant is nil when the call has returned before, as it does
\* with the error of getAssignedRollout.
selectedByRollout(flag, flagKey, flagContext) ==
    {[selectedVariant |-> IF assigned.rollout # 0
                          THEN getAssignedVariant(flag, flagContext[flag.Context], flagKey,
                                                  flag.Ruleset.Rollout[assigned.rollout])
                          ELSE NoVariant,
      err |-> assigned.err] :
        assigned \in getAssignedRollout(flag, flagContext[flag.Context], flagContext)}

\* GetVariant with the test users consulted before the context attribute is looked up.
selectedVariantTestFirst(flags, flagKey, flagContext) ==
    IF flagKey \notin DOMAIN flags THEN {[selectedVariant |-> NoVariant, err |-> FALSE]}
    ELSE LET flag == flags[flagKey]
             testVariant == getVariantOverrideForTestUser(flag, flagContext)
         IN  IF testVariant.present THEN {[selectedVariant |-> testVariant, err |-> FALSE]}
             ELSE IF flag.Context \notin DOMAIN flagContext
             THEN {[selectedVariant |-> NoVariant, err |-> FALSE]}
             ELSE selectedByRollout(flag, flagKey, flagContext)

\* What GetVariant can have when it reaches "if selectedVariant != nil" or has returned
\* before: the value of selectedVariant, nil when the call returned before, and whether
\* the call returned an error.
selectedVariantOn(flags, flagKey, flagContext) ==
    IF flagKey \notin DOMAIN flags THEN {[selectedVariant |-> NoVariant, err |-> FALSE]}
    ELSE LET flag == flags[flagKey]
         IN  IF flag.Context \notin DOMAIN flagContext
             THEN {[selectedVariant |-> NoVariant, err |-> FALSE]}
             ELSE LET testVariant == getVariantOverrideForTestUser(flag, flagContext)
                  IN  IF testVariant.present
                      THEN {[selectedVariant |-> testVariant, err |-> FALSE]}
                      ELSE selectedByRollout(flag, flagKey, flagContext)

\* GetVariant that reports the exposure of whatever it returns, the fallback included.
GetVariantCallTracksFallback(flags, flagKey, fallbackVariant, flagContext, reportExposure, trk) ==
    {LET variant == IF s.selectedVariant.present THEN s.selectedVariant.v ELSE fallbackVariant
     IN  [variant |-> variant,
          tracked |-> IF reportExposure
                      THEN trackExposure(flagKey, variant, flagContext, TRUE, trk)
                      ELSE <<>>,
          err |-> s.err] :
        s \in selectedVariantOn(flags, flagKey, flagContext)}

\* GetVariant with its exposure tracking: the outcomes of the call, each the variant
\* returned, the tracker's invocations and whether an error is returned.  With an error
\* and with no variant selected the fallback is returned and nothing is tracked.
GetVariantCall(flags, flagKey, fallbackVariant, flagContext, reportExposure, trk) ==
    {IF s.selectedVariant.present
     THEN [variant |-> s.selectedVariant.v,
           tracked |-> IF reportExposure
                       THEN trackExposure(flagKey, s.selectedVariant.v, flagContext, TRUE, trk)
                       ELSE <<>>,
           err |-> FALSE]
     ELSE [variant |-> fallbackVariant, tracked |-> <<>>, err |-> s.err] :
        s \in selectedVariantOn(flags, flagKey, flagContext)}

\* variant.VariantValue, or fallbackValue with the error of GetVariant, which returned
\* the fallback variant of that value.
GetVariantValueCall(flags, flagKey, fallbackValue, flagContext, trk) ==
    {[value |-> IF r.err THEN fallbackValue ELSE r.variant.VariantValue,
      tracked |-> r.tracked, err |-> r.err] :
        r \in GetVariantCall(flags, flagKey,
                             [ZeroSelectedVariant EXCEPT !.VariantValue = fallbackValue],
                             flagContext, TRUE, trk)}

\* IsEnabled that takes every value printed as "true" for true.
IsEnabledPrinted(flags, flagKey, flagContext, trk) ==
    {[enabled |-> ~r.err /\ Sprintv(r.value) = <<116, 114, 117, 101>>, tracked |-> r.tracked,
      err |-> r.err] :
        r \in GetVariantValueCall(flags, flagKey, BoolVal(FALSE), flagContext, trk)}

\* value == true: the value is the Go bool true; false with the error of
\* GetVariantValue.
IsEnabledCall(flags, flagKey, flagContext, trk) ==
    {[enabled |-> ~r.err /\ r.value = BoolVal(TRUE), tracked |-> r.tracked, err |-> r.err] :
        r \in GetVariantValueCall(flags, flagKey, BoolVal(FALSE), flagContext, trk)}

keepVariantAlways(variant) == TRUE

\* The variant GetAllVariants stores under a key: kept when its VariantKey is not nil.
keepVariant(variant) == variant.VariantKey.present

RECURSIVE getAllFrom(_, _, _, _)
\* GetAllVariants' loop over the keys in flagKeys: its outcomes.  The error of a
\* GetVariant call ends the loop with return nil, err; as these calls track nothing,
\* the order of the keys makes no difference to the outcome.
getAllFrom(flags, flagKeys, flagContext, trk) ==
    IF flagKeys = {} THEN {[variants |-> <<>>, tracked |-> <<>>, err |-> FALSE]}
    ELSE LET flagKey == CHOOSE k \in flagKeys : TRUE
         IN  {[variants |-> IF r.err \/ rest.err THEN <<>>
                            ELSE IF keepVariant(r.variant)
                            THEN (flagKey :> r.variant) @@ rest.variants
                            ELSE rest.variants,
               tracked |-> r.tracked \o rest.tracked,
               err |-> r.err \/ rest.err] :
                 r \in GetVariantCall(flags, flagKey, ZeroSelectedVariant, flagContext,
                                      FALSE, trk),
                 rest \in getAllFrom(flags, flagKeys \ {flagKey}, flagContext, trk)}

GetAllVariantsCall(flags, flagContext, trk) == getAllFrom(flags, DOMAIN flags, flagContext, trk)

\* The flag as a call of getAssignedVariant leaves it in memory: a call that returns the
\* variant of the rollout's variantOverride has written nothing; otherwise the flag's
\* variants are what the array of flag.Ruleset.Variants holds after the statements of
\* assignedVariants.
flagAfterAssign(flag, rollout) ==
    IF rollout.VariantOverride.present
       /\ getMatchingVariant(rollout.VariantOverride.Key, flag, FALSE).present
    THEN flag
    ELSE [flag EXCEPT !.Ruleset.Variants = assignedVariants(flag, rollout).mem[FlagArray]]

\* The map *flags as a call of GetVariant can leave it in memory.  The call writes to
\* memory in getAssignedVariant only: the lookups, getVariantOverrideForTestUser,
\* getAssignedRollout (which ranges over copies of the rollouts) and trackExposure
\* assign to locals, and the maps and slices that lowercaseKeysAndValues and
\* lowercaseOnlyLeafNodes fill are their own.
flagsAfterGetVariant(flags, flagKey, flagContext) ==
    IF flagKey \notin DOMAIN flags THEN {flags}
    ELSE LET flag == flags[flagKey]
         IN  IF flag.Context \notin DOMAIN flagContext THEN {flags}
             ELSE LET contextValue == flagContext[flag.Context]
                      testVariant == getVariantOverrideForTestUser(flag, flagContext)
                  IN  IF testVariant.present THEN {flags}
                      ELSE {IF assigned.rollout = 0 THEN flags
                            ELSE [flags EXCEPT
                                     ![flagKey] = flagAfterAssign(flag, flag.Ruleset.Rollout[assigned.rollout])] :
                               assigned \in getAssignedRollout(flag, contextValue, flagContext)}

\* The map as GetAllVariants can leave it, after its GetVariant call for every key.
flagsAfterGetAllVariants(flags, flagContext) ==
    LET outcomes == [k \in DOMAIN flags |->
                        {after[k] : after \in flagsAfterGetVariant(flags, k, flagContext)}]
    IN  Choices(DOMAIN flags, outcomes)

\* The variables of the provider with goroutines, which the evaluation leaves alone.
pollingVars == <<config, provider, panicked, pc, built, tasks, gv, gav, ret>>

\* A provider of revision rev after a StartPollingForDefinitions without polling that
\* fetched the map EvalMap(ev): the map is published and the flags are ready; no
\* goroutine polls.
InitEvalOf(rev) ==
    /\ revision = rev
    /\ EnablePolling = FALSE
    /\ clientTimeout = defaultRequestTimeout
    /\ flagDefinitions = 0
    /\ areFlagsReady = TRUE
    /\ pollingStarted = FALSE
    /\ stopPolling = FALSE
    /\ pollingStopped = FALSE
    /\ panicked = FALSE
    /\ pc = [c \in Callers |-> "off"]
    /\ built = [c \in Callers |-> 0]
    /\ tasks = [s \in TaskLocals |-> 0]
    /\ gv = [c \in Callers |-> NoGv]
    /\ gav = [c \in Callers |-> NoGav]
    /\ ret = [c \in Callers |-> NoRet]
    /\ tracker \in BOOLEAN
    /\ \E salted \in BOOLEAN, rollouts \in RolloutLists, test \in 1..Len(TestPool) :
          ev = [NoEv EXCEPT !.salted = salted, !.rollouts = rollouts, !.test = test]
    /\ published = EvalMap(ev)
    /\ tracked = <<>>
    /\ hashed = NoHash

InitEval == InitEvalOf(RevLocalFlags)

CallGetVariant ==
    /\ ev.op = ""
    /\ \E flagKey \in EvalKeys, ctx \in 1..Len(EvalContexts), reportExposure \in BOOLEAN :
          \E r \in GetVariantCall(published, flagKey, EvalFallback, EvalContexts[ctx],
                                  reportExposure, tracker) :
              /\ ev' = [ev EXCEPT !.op = "GetVariant", !.key = flagKey, !.ctx = ctx,
                                  !.report = reportExposure, !.variant = r.variant,
                                  !.err = r.err]
              /\ tracked' = r.tracked
              /\ published' \in flagsAfterGetVariant(published, flagKey, EvalContexts[ctx])
    /\ UNCHANGED <<tracker, hashed, pollingVars>>

CallGetVariantValue ==
    /\ ev.op = ""
    /\ \E flagKey \in EvalKeys, ctx \in 1..Len(EvalContexts) :
          \E r \in GetVariantValueCall(published, flagKey, EvalFallbackValue,
                                       EvalContexts[ctx], tracker) :
              /\ ev' = [ev EXCEPT !.op = "GetVariantValue", !.key = flagKey, !.ctx = ctx,
                                  !.report = TRUE, !.value = r.value, !.err = r.err]
              /\ tracked' = r.tracked
              /\ published' \in flagsAfterGetVariant(published, flagKey, EvalContexts[ctx])
    /\ UNCHANGED <<tracker, hashed, pollingVars>>

CallIsEnabled ==
    /\ ev.op = ""
    /\ \E flagKey \in EvalKeys, ctx \in 1..Len(EvalContexts) :
          \E r \in IsEnabledCall(published, flagKey, EvalContexts[ctx], tracker) :
              /\ ev' = [ev EXCEPT !.op = "IsEnabled", !.key = flagKey, !.ctx = ctx,
                                  !.report = TRUE, !.enabled = r.enabled, !.err = r.err]
              /\ tracked' = r.tracked
              /\ published' \in flagsAfterGetVariant(published, flagKey, EvalContexts[ctx])
    /\ UNCHANGED <<tracker, hashed, pollingVars>>

CallGetAllVariants ==
    /\ ev.op = ""
    /\ \E ctx \in 1..Len(EvalContexts) :
          \E r \in GetAllVariantsCall(published, EvalContexts[ctx], tracker) :
              /\ ev' = [ev EXCEPT !.op = "GetAllVariants", !.ctx = ctx, !.variants = r.variants,
                                  !.err = r.err]
              /\ tracked' = r.tracked
              /\ published' \in flagsAfterGetAllVariants(published, EvalContexts[ctx])
    /\ UNCHANGED <<tracker, hashed, pollingVars>>

\* TrackExposureEvent(ctx, flagKey, variant, flagContext): p.trackExposure(flagKey,
\* variant, flagContext, nil).
CallTrackExposureEvent ==
    /\ ev.op = ""
    /\ \E v \in 1..Len(TrackVariants), ctx \in 1..Len(EvalContexts) :
          /\ ev' = [ev EXCEPT !.op = "TrackExposureEvent", !.key = FlagG, !.ctx = ctx,
                              !.variant = TrackVariants[v]]
          /\ tracked' = trackExposure(FlagG, TrackVariants[v], EvalContexts[ctx], FALSE, tracker)
    /\ UNCHANGED <<tracker, published, hashed, pollingVars>>

\* The call has returned; the caller is free to make the next one.
CallDone ==
    /\ ev.op # ""
    /\ ev' = [NoEv EXCEPT !.salted = ev.salted, !.rollouts = ev.rollouts, !.test = ev.test]
    /\ tracked' = <<>>
    /\ UNCHANGED <<tracker, published, hashed, pollingVars>>

NextEval ==
    \/ CallGetVariant
    \/ CallGetVariantValue
    \/ CallIsEnabled
    \/ CallGetAllVariants
    \/ CallTrackExposureEvent
    \/ CallDone

\* The provider of src/flags/localFlags.go, whose calls return no error.
SpecEval == InitEval /\ [][NextEval]_vars

\* The provider of src/unnamed/part_012, whose calls return the error of a rule.
SpecEvalErr == InitEvalOf(RevPart012) /\ [][NextEval]_vars

----------------------------------------------------------------------------
(* normalizedHash on its own *)

\* The longest key made of the bytes of HashAlphabet.
MaxHashLen == 2

\* 'u', '1' and the two bytes of the UTF-8 encoding of U+00E9.
HashAlphabet == {117, 49, 195, 169}

\* The keys: every string of at most MaxHashLen bytes of the alphabet, "abc", "def" and
\* "be", whose hash with the salt "frollout" ends in 99.
HashKeys ==
    UNION {[1..n -> HashAlphabet] : n \in 0..MaxHashLen}
        \cup {<<97, 98, 99>>, <<100, 101, 102>>, <<98, 101>>}

\* The salts: "", "variant", "frollout", "fs0".
HashSalts ==
    {<<>>, <<118, 97, 114, 105, 97, 110, 116>>,
     <<102, 114, 111, 108, 108, 111, 117, 116>>, <<102, 115, 48>>}

\* How often normalizedHash is called on the same arguments.
MaxHashCalls == 2

InitHash ==
    /\ InitFor({})
    /\ EnablePolling = FALSE
    /\ clientTimeout = defaultRequestTimeout
    /\ tracker = FALSE /\ published = <<>> /\ ev = NoEv /\ tracked = <<>>
    /\ \E key \in HashKeys, salt \in HashSalts : hashed = [NoHash EXCEPT !.key = key, !.salt = salt]

\* normalizedHash(key, salt) is called and returns.
CallNormalizedHash ==
    /\ Len(hashed.calls) < MaxHashCalls
    /\ hashed' = [hashed EXCEPT !.calls = Append(@, normalizedHash(hashed.key, hashed.salt))]
    /\ UNCHANGED <<tracker, published, ev, tracked, pollingVars>>

\* The rollout percentages, in hundredths: 0, 0.01, ..., 1.0.
HashPercentages == 0..HashBuckets

\* Flag f with one rollout of percentage pct without rule, and salt as its hashSalt ("" is
\* no hashSalt).
HashFlag(salt, pct) ==
    ExperimentationFlag(FlagF, "distinct_id", IF salt = <<>> THEN NoStr ELSE SomeStr(salt),
        << Variant(VarA, BoolVal(TRUE), 100) >>,
        << Rollout(pct, NoRule, NoOverride, NoSplits) >>, NoTest)

\* getAssignedRollout is called for the subject hashed.key on such a flag and returns.
CallGetAssignedRollout ==
    /\ hashed.assigned = <<>>
    /\ \E pct \in HashPercentages :
          LET flagContext == "distinct_id" :> StrVal(hashed.key)
          IN  \E assigned \in getAssignedRollout(HashFlag(hashed.salt, pct),
                                                 flagContext["distinct_id"], flagContext) :
                  hashed' = [hashed EXCEPT !.assigned =
                                << [pct |-> pct, rollout |-> assigned.rollout] >>]
    /\ UNCHANGED <<tracker, published, ev, tracked, pollingVars>>

NextHash ==
    \/ CallNormalizedHash
    \/ CallGetAssignedRollout

SpecHash == InitHash /\ [][NextHash]_vars

----------------------------------------------------------------------------
(* Properties *)

\* A caller's call of op has returned and the caller has not gone on yet.
Returned(c, op) == pc[c] = "done" /\ ret[c].op = op

TaskAt(p) == \E s \in TaskLocals : s.pc = p /\ tasks[s] > 0

\* C1: a GetVariant call returns what the evaluation of the one map it loaded gives,
\* whatever maps are published while it runs: flag, rollouts and variants are never
\* taken from two maps.
C1_GetVariantUsesOneSnapshot ==
    \A c \in Callers :
        Returned(c, "GetVariant") =>
            ret[c].variant \in GetVariantOn(Maps[ret[c].flags], ret[c].key, Fallback,
                                          Contexts[ret[c].ctx])

\* A GetVariant call that chose its rollout in one map and ran getAssignedVariant when
\* another map was published has returned a variant.
C1_Witness ==
    \E c \in Callers :
        /\ Returned(c, "GetVariant")
        /\ ret[c].swapped
        /\ ret[c].variant.VariantKey.present

\* The step is a fetchFlagDefinitions that returns an error: in a caller's
\* StartPollingForDefinitions, which returns it, or in a task, which logs it.
FetchFailsInStep ==
    \/ \E c \in Callers : pc[c] = "fetch" /\ pc'[c] = "done"
    \/ tasks'[[pc |-> "log", built |-> 0]] > tasks[[pc |-> "log", built |-> 0]]

\* C2: a fetch that fails, synchronous or in the background, leaves the published map
\* and the ready flag as they were, so evaluation goes on with the last fetched map.
C2_FailedFetchKeepsSnapshot ==
    [][FetchFailsInStep => UNCHANGED <<flagDefinitions, areFlagsReady>>]_vars

\* A background fetch has failed and a synchronous one has returned its error while a
\* fetched map is published and ready.
C2_Witness ==
    /\ TaskAt("log")
    /\ \E c \in Callers : Returned(c, "start") /\ ret[c].err
    /\ flagDefinitions # 0
    /\ areFlagsReady

\* No StopPollingForDefinitions call has got past its check of pollingStarted.
OnlyStartsSoFar ==
    /\ ~stopPolling
    /\ \A c \in Callers : pc[c] \notin {"close", "wait", "clear"}

\* C3: whatever StartPollingForDefinitions calls are made, also concurrently, at most
\* one pollForDefinitions goroutine exists.
C3_AtMostOneTask == OnlyStartsSoFar => NumTasks <= 1

\* A step of a StartPollingForDefinitions call that runs on a provider whose polling is
\* started: under SpecSeq, a call that follows a start with no stop in between.
SecondStartStep(c) ==
    /\ pollingStarted
    /\ pc[c] \in {"fetch", "store", "ready", "started"}
    /\ pc'[c] # pc[c]

\* C4, as claimed: the second of two starts with no stop in between starts no task and
\* leaves the published map, the ready flag and the polling state as they were.
C4_SecondStartIsNoOp ==
    [][\A c \in Callers : SecondStartStep(c) => UNCHANGED <<provider, tasks>>]_vars

\* C4, amended: the second start starts no task and leaves the ready flag and the polling
\* state as they were, but it fetches again and publishes the map it fetched.
C4_SecondStartOnlyRefetches ==
    [][\A c \in Callers :
          SecondStartStep(c) =>
              /\ UNCHANGED <<areFlagsReady, pollingStarted, stopPolling, pollingStopped, tasks>>
              /\ pc'[c] \notin {"set", "go"}
              /\ flagDefinitions' # flagDefinitions =>
                    pc[c] = "store" /\ flagDefinitions' = built[c]]_vars

\* A second start has returned nil without launching a task, with the one task of the
\* first start running and a map published that the first start did not publish.
C4_Witness ==
    \E c \in Callers :
        /\ Returned(c, "start") /\ ~ret[c].err /\ ~ret[c].launched
        /\ EnablePolling /\ pollingStarted /\ ~stopPolling
        /\ tasks[[pc |-> "select", built |-> 0]] = 1
        /\ flagDefinitions = 2

\* C5: when a StopPollingForDefinitions call that found polling started returns, no
\* pollForDefinitions goroutine is left to fetch or publish.
C5_StopReturnsAfterTaskExit ==
    [][\A c \in Callers : (pc[c] = "clear" /\ pc'[c] = "done") => NumTasks = 0]_vars

\* C6: StopPollingForDefinitions on a provider whose polling is not started (never
\* started, started with polling disabled, start failed, or stopped before) returns at
\* once: it closes no channel, does not wait, and changes nothing of the provider.
C6_StopWhenNotStartedIsNoOp ==
    [][\A c \in Callers :
          (~pollingStarted /\ pc[c] = "idle") =>
              /\ pc'[c] # "close"
              /\ ret'[c].op = "stop" =>
                    /\ pc'[c] = "done" /\ ~ret'[c].waited
                    /\ UNCHANGED <<provider, panicked, tasks>>]_vars

\* A stop has returned at once on a provider that an earlier stop had stopped.
C6_Witness ==
    \E c \in Callers :
        /\ Returned(c, "stop") /\ ~ret[c].waited
        /\ stopPolling /\ pollingStopped /\ ~pollingStarted /\ ~panicked
        /\ NumTasks = 0

\* C7: a StartPollingForDefinitions whose fetch fails returns the error without reaching
\* the go statement, starts no task and changes nothing of the provider; and as long as
\* no fetch has stored a map, the provider is not ready and its map is the initial one.
C7_FailedStartReturnsError ==
    /\ [][\A c \in Callers :
             (pc[c] = "fetch" /\ pc'[c] \notin {"fetch", "store"}) =>
                 /\ pc'[c] = "done"
                 /\ ret'[c].op = "start" /\ ret'[c].err /\ ~ret'[c].launched
                 /\ UNCHANGED <<provider, tasks>>]_vars
    /\ []((~areFlagsReady /\ \A t \in Threads : t.pc # "ready") => flagDefinitions = 0)

\* A start has returned an error on a provider that has never fetched: not ready, the
\* initial map, no task.
C7_Witness ==
    \E c \in Callers :
        /\ Returned(c, "start") /\ ret[c].err
        /\ ~areFlagsReady /\ flagDefinitions = 0 /\ NumTasks = 0 /\ ~pollingStarted

\* C8: AreFlagsReady is false after construction, becomes true only in the step in which
\* a fetchFlagDefinitions succeeds, is true once a fetch has succeeded, and never becomes
\* false again.
C8_ReadyIsMonotonic ==
    /\ ~areFlagsReady
    /\ [][areFlagsReady => areFlagsReady']_vars
    /\ [][(~areFlagsReady /\ areFlagsReady') => \E t \in Threads : t.pc = "ready"]_vars
    /\ [](\A c \in Callers :
            (pc[c] \in {"started", "set", "go"} \/ (Returned(c, "start") /\ ~ret[c].err))
                => areFlagsReady)

\* The provider is still ready after the fetch of a later start has failed and polling
\* was stopped.
C8_Witness ==
    /\ areFlagsReady
    /\ \E c \in Callers : Returned(c, "start") /\ ret[c].err
    /\ stopPolling /\ pollingStopped /\ ~pollingStarted

\* C9, as claimed: while a pollForDefinitions goroutine exists, no caller stores a map.
C9_OnlyTaskWrites ==
    [][\A c \in Callers : (NumTasks > 0 /\ pc[c] = "store") => pc'[c] = "store"]_vars

\* C9, amended: the published map is replaced only by the Store of a
\* fetchFlagDefinitions, run by a task or by a caller of StartPollingForDefinitions,
\* with the map that this fetch built; no other step replaces it.
C9_OnlyFetchStoreWrites ==
    [][flagDefinitions' # flagDefinitions =>
          \E t \in Threads : t.pc = "store" /\ flagDefinitions' = t.built]_vars

\* A caller has just stored the map it fetched while a task exists.
C9_Witness ==
    \E c \in Callers : pc[c] = "ready" /\ NumTasks > 0 /\ flagDefinitions # 0

\* C10: what GetAllVariants returns is the set of resolved variants of one map.
C10_GetAllVariantsUsesOneSnapshot ==
    \A c \in Callers :
        Returned(c, "GetAllVariants") =>
            \E i \in DOMAIN Maps : ret[c].variants \in GetAllVariantsOn(Maps[i], Contexts[ret[c].ctx])

----------------------------------------------------------------------------
(* Properties of the evaluation (SpecEval) *)

\* The map and the context of the call in ev.
EvFlags == EvalMap(ev)
EvContext == EvalContexts[ev.ctx]

\* The context has the attribute that the flag of the call names.
EvHasAttribute == ev.key \in DOMAIN EvFlags /\ EvFlags[ev.key].Context \in DOMAIN EvContext

\* The context's distinct_id is a string.
EvHasSubject ==
    "distinct_id" \in DOMAIN EvContext /\ EvContext["distinct_id"].type = "string"

\* C11: GetAllVariants never invokes the tracker, and its result has a key exactly for
\* the flags of the map that resolve to a variant for the context, with that variant.
C11_GetAllVariantsOmitsUndecided ==
    ev.op = "GetAllVariants" =>
        /\ tracked = <<>>
        /\ \E resolved \in Choices(DOMAIN EvFlags,
                                    [k \in DOMAIN EvFlags |->
                                        {s.selectedVariant :
                                            s \in selectedVariantOn(EvFlags, k, EvContext)}]) :
              /\ DOMAIN ev.variants = {k \in DOMAIN EvFlags : resolved[k].present}
              /\ \A k \in DOMAIN ev.variants : ev.variants[k] = resolved[k].v

\* GetAllVariants on a provider with a tracker, for a context with a string distinct_id,
\* has returned flag g and left flag f out.
C11_Witness ==
    /\ ev.op = "GetAllVariants" /\ tracker /\ EvHasSubject
    /\ FlagG \in DOMAIN ev.variants /\ FlagF \notin DOMAIN ev.variants

\* C12: GetVariant (and GetVariantValue) returns the caller's fallback unchanged and does
\* not invoke the tracker when the flag key is not in the map or the context lacks the
\* attribute the flag names, whatever the flag's test users say.
C12_FallbackWithoutFlagOrAttribute ==
    (ev.op \in {"GetVariant", "GetVariantValue"} /\ ~EvHasAttribute) =>
        /\ tracked = <<>>
        /\ ev.op = "GetVariant" => ev.variant = EvalFallback
        /\ ev.op = "GetVariantValue" => ev.value = EvalFallbackValue

\* GetVariant with reportExposure on a provider with a tracker has returned the fallback
\* for flag g, whose test users list the context's distinct_id, as the context has no
\* device_id.
C12_Witness ==
    /\ ev.op = "GetVariant" /\ ev.key = FlagG /\ ev.report /\ tracker
    /\ "device_id" \notin DOMAIN EvContext
    /\ EvHasSubject /\ EvContext["distinct_id"].str = UserQa
    /\ ev.variant = EvalFallback

\* The flag of the call in ev, when the map has it.
EvFlag == EvFlags[ev.key]

\* What the rollouts of the flag can give for the call in ev, its test users left
\* aside: the variant of an assigned rollout, else the fallback of the call.
EvBucketingVariants ==
    IF ~EvHasAttribute THEN {EvalFallback}
    ELSE LET contextValue == EvContext[EvFlag.Context]
             variant(rollout) == getAssignedVariant(EvFlag, contextValue, ev.key,
                                                    EvFlag.Ruleset.Rollout[rollout])
         IN  {IF assigned.rollout # 0 /\ variant(assigned.rollout).present
              THEN variant(assigned.rollout).v
              ELSE EvalFallback :
                 assigned \in getAssignedRollout(EvFlag, contextValue, EvContext)}

\* The test users of the flag list the context's distinct_id.
EvIsTestUser ==
    /\ EvFlag.Ruleset.Test.present /\ EvFlag.Ruleset.Test.Users.present
    /\ EvHasSubject
    /\ EvContext["distinct_id"].str \in DOMAIN EvFlag.Ruleset.Test.Users.m

\* The variants of the flag whose key is, ignoring letter case, the key that the test
\* users give for the context's distinct_id.
EvTestVariants ==
    {i \in 1..Len(EvFlag.Ruleset.Variants) :
        ToLower(EvFlag.Ruleset.Variants[i].Key)
            = ToLower(EvFlag.Ruleset.Test.Users.m[EvContext["distinct_id"].str])}

\* The call in ev returned the i-th variant of the flag as a QA tester's variant.
EvReturnedTestVariant(i) ==
    /\ ev.variant.VariantKey = SomeStr(EvFlag.Ruleset.Variants[i].Key)
    /\ ev.variant.VariantValue = EvFlag.Ruleset.Variants[i].Value
    /\ ev.variant.IsQATester = SomeBool(TRUE)

\* C13, as claimed: when the flag's test users map the context's distinct_id to a variant
\* of the flag, GetVariant returns that variant with IsQATester = true whatever the
\* rollouts are; for a distinct_id that is not listed it returns what the rollouts give,
\* without IsQATester.
C13_TestUserOverrideWins ==
    (ev.op = "GetVariant" /\ ev.key \in DOMAIN EvFlags) =>
        /\ (EvIsTestUser /\ EvTestVariants # {}) =>
              \E i \in EvTestVariants : EvReturnedTestVariant(i)
        /\ ~EvIsTestUser =>
              ev.variant \in EvBucketingVariants /\ ~ev.variant.IsQATester.present

\* C13, amended: the same, for a context that has the attribute the flag names.
C13_TestUserOverrideWinsWithAttribute ==
    (ev.op = "GetVariant" /\ EvHasAttribute) =>
        /\ (EvIsTestUser /\ EvTestVariants # {}) =>
              \E i \in EvTestVariants : EvReturnedTestVariant(i)
        /\ ~EvIsTestUser =>
              ev.variant \in EvBucketingVariants /\ ~ev.variant.IsQATester.present

\* GetVariant has returned variant B as a QA tester's variant for distinct_id qa, where
\* the rollouts give variant a.
C13_Witness ==
    /\ ev.op = "GetVariant" /\ ev.key = FlagF /\ EvIsTestUser
    /\ ev.variant.VariantKey = SomeStr(VarUpperB)
    /\ ev.variant.IsQATester = SomeBool(TRUE)
    /\ \A variant \in EvBucketingVariants : variant.VariantKey = SomeStr(VarA)

\* C14: when the flag has no test users, or the context's distinct_id is missing, is not
\* a string or is not listed, or the listed key matches no variant of the flag,
\* GetVariant returns what the rollouts give, without IsQATester.
C14_FallsThroughToBucketing ==
    (ev.op = "GetVariant" /\ ev.key \in DOMAIN EvFlags
        /\ (~EvIsTestUser \/ EvTestVariants = {})) =>
            ev.variant \in EvBucketingVariants /\ ~ev.variant.IsQATester.present

\* GetVariant has returned a variant that the rollouts give for distinct_id qa, which the
\* test users map to a key that no variant has.
C14_Witness ==
    /\ ev.op = "GetVariant" /\ ev.key = FlagF
    /\ EvIsTestUser /\ EvTestVariants = {}
    /\ ev.variant # EvalFallback /\ ev.variant.VariantKey.present

\* The call in ev is decided by the rollouts of the flag: the context has the flag's
\* attribute and no test user's variant applies.
EvByRollouts == EvHasAttribute /\ ~(EvIsTestUser /\ EvTestVariants # {})

\* bucket(subject, salt_i) for the rollout at 0-based index i < 10: salt_i is key +
\* hashSalt + i when the flag has a hashSalt and key + "rollout" otherwise.
EvRolloutBucket(i) ==
    normalizedHash(Sprintv(EvContext[EvFlag.Context]),
                   IF EvFlag.HashSalt.present
                   THEN ev.key \o EvFlag.HashSalt.v \o <<48 + i>>
                   ELSE ev.key \o <<114, 111, 108, 108, 111, 117, 116>>)

\* The rollout at position i (from 1) can qualify: its percentage exceeds the bucket
\* value and its runtime rule, if any, can be satisfied.
EvCanQualify(i) ==
    /\ EvRolloutBucket(i - 1) < EvFlag.Ruleset.Rollout[i].RolloutPercentage
    /\ \E r \in isRuntimeEvaluationSatisfied(EvFlag.Ruleset.Rollout[i], EvContext) :
          r.satisfied

\* The rollout at position i can fail to qualify.
EvCanFail(i) ==
    \/ ~(EvRolloutBucket(i - 1) < EvFlag.Ruleset.Rollout[i].RolloutPercentage)
    \/ \E r \in isRuntimeEvaluationSatisfied(EvFlag.Ruleset.Rollout[i], EvContext) :
          ~r.satisfied

\* The positions of the rollouts that can be the first to qualify; it is one position
\* at most unless the properties of the context have keys that differ in case only.
EvQualifying ==
    {i \in 1..Len(EvFlag.Ruleset.Rollout) :
        EvCanQualify(i) /\ \A j \in 1..(i - 1) : EvCanFail(j)}

\* The map of ev with the rollout list of the call's flag cut after position n.
EvFlagsCutAfter(n) ==
    [EvFlags EXCEPT ![ev.key].Ruleset.Rollout = SubSeq(@, 1, n)]

\* The call in ev returned what the rollout at position i gives.
EvReturnedOf(i) ==
    LET variant == getAssignedVariant(EvFlag, EvContext[EvFlag.Context], ev.key,
                                      EvFlag.Ruleset.Rollout[i])
    IN  /\ ev.variant = IF variant.present THEN variant.v ELSE EvalFallback
        /\ ev.variant \in GetVariantOn(EvFlagsCutAfter(i), ev.key, EvalFallback, EvContext)

\* C15: GetVariant returns the variant of the first rollout, in array order, whose
\* percentage exceeds bucket(subject, salt_i) and whose rule is satisfied; the rollouts
\* after it do not change the result; when no rollout qualifies it returns the fallback.
C15_FirstQualifyingRollout ==
    (ev.op = "GetVariant" /\ EvByRollouts) =>
        \/ \E i \in EvQualifying : EvReturnedOf(i)
        \/ /\ \A i \in 1..Len(EvFlag.Ruleset.Rollout) : EvCanFail(i)
           /\ ev.variant = EvalFallback

\* GetVariant on a flag with a hashSalt has returned the variant of the second of two
\* rollouts; the first, of 100%, was skipped for its rule, and the second qualifies by
\* the bucket value of its own salt.
C15_Witness ==
    /\ ev.op = "GetVariant" /\ ev.key = FlagF /\ ev.salted /\ EvByRollouts
    /\ Len(ev.rollouts) = 2 /\ EvQualifying = {2}
    /\ EvFlag.Ruleset.Rollout[1].RolloutPercentage = 100
    /\ EvFlag.Ruleset.Rollout[2].RolloutPercentage = 50
    /\ ev.variant.VariantKey = SomeStr(VarUpperB)

\* The context of the call in ev has custom_properties and they are a map.
EvHasProperties ==
    "custom_properties" \in DOMAIN EvContext /\ EvContext["custom_properties"].type = "map"

\* What the evaluation of a rule on the lower-cased custom_properties of the context
\* can give, when the context has them.
EvRuleResults(rule) ==
    {jsonlogicApply(lowercaseOnlyLeafNodes(rule), normalizedProps) :
        normalizedProps \in lowercaseKeysAndValues(EvContext["custom_properties"])}

\* A rollout that no subject gets.
EvDisabled(rollout) ==
    [rollout EXCEPT !.RolloutPercentage = 0, !.RuntimeEvaluationRule = NoRule]

\* The rule of a rollout can evaluate to true on the properties of the context / can
\* fail to: the context has no custom_properties as a map, or the rule can evaluate to
\* something else.
EvRuleCanHold(rollout) ==
    EvHasProperties
        /\ [kind |-> "ok", b |-> TRUE] \in EvRuleResults(rollout.RuntimeEvaluationRule)
EvRuleCanFail(rollout) ==
    ~EvHasProperties
        \/ EvRuleResults(rollout.RuntimeEvaluationRule) # {[kind |-> "ok", b |-> TRUE]}

\* The ways the rules of the rollouts at positions 1..MaxRollouts can come out:
\* holds[i] tells whether the rule of the rollouts at position i evaluates to true.
EvRuleOutcomes ==
    {holds \in [1..MaxRollouts -> BOOLEAN] :
        \A k \in DOMAIN EvFlags : \A i \in 1..Len(EvFlags[k].Ruleset.Rollout) :
            LET rollout == EvFlags[k].Ruleset.Rollout[i]
            IN  rollout.RuntimeEvaluationRule.present =>
                    IF holds[i] THEN EvRuleCanHold(rollout) ELSE EvRuleCanFail(rollout)}

\* The map of ev with every rollout that has a rule replaced by the same rollout
\* without the rule when the rule evaluates to true, and by a rollout that no subject
\* gets otherwise.
EvFlagsRulesDecided(holds) ==
    [k \in DOMAIN EvFlags |->
        [EvFlags[k] EXCEPT !.Ruleset.Rollout =
            [i \in 1..Len(EvFlags[k].Ruleset.Rollout) |->
                LET rollout == EvFlags[k].Ruleset.Rollout[i]
                IN  IF ~rollout.RuntimeEvaluationRule.present THEN rollout
                    ELSE IF holds[i]
                    THEN [rollout EXCEPT !.RuntimeEvaluationRule = NoRule]
                    ELSE EvDisabled(rollout)]]]

\* C16: a rollout with a runtime rule is taken only if the context has custom_properties
\* as a map and the rule evaluates to true on the lower-cased properties; otherwise
\* GetVariant goes on with the next rollout as if this one were not there, and returns
\* the fallback when none is left.
C16_RuleGatesRollout ==
    ev.op = "GetVariant" =>
        \E holds \in EvRuleOutcomes :
            GetVariantOn(EvFlagsRulesDecided(holds), ev.key, EvalFallback, EvContext)
                = {ev.variant}

\* For a context whose custom_properties are not a map, GetVariant has skipped a first
\* rollout of 100% with a rule and returned variant a of the second rollout.
C16_Witness ==
    /\ ev.op = "GetVariant" /\ ev.key = FlagF /\ EvByRollouts
    /\ "custom_properties" \in DOMAIN EvContext /\ ~EvHasProperties
    /\ Len(ev.rollouts) = 2
    /\ EvFlag.Ruleset.Rollout[1].RuntimeEvaluationRule.op = "=="
    /\ EvFlag.Ruleset.Rollout[1].RolloutPercentage = 100
    /\ ev.variant.VariantKey = SomeStr(VarA)

\* For a context whose custom_properties have the keys Plan and plan, with the values
\* Premium and free, the rule plan == premium of the only rollout can come out either
\* way, and GetVariant has returned the fallback.
C16_WitnessEitherWay ==
    /\ ev.op = "GetVariant" /\ ev.key = FlagF /\ EvByRollouts /\ EvHasProperties
    /\ Len(ev.rollouts) = 1
    /\ EvFlag.Ruleset.Rollout[1].RuntimeEvaluationRule.op = "=="
    /\ EvRuleCanHold(EvFlag.Ruleset.Rollout[1]) /\ EvRuleCanFail(EvFlag.Ruleset.Rollout[1])
    /\ ev.variant = EvalFallback

\* The same call has returned variant c, which the rollout forces.
C16_WitnessEitherWayHeld ==
    /\ ev.op = "GetVariant" /\ ev.key = FlagF /\ EvByRollouts /\ EvHasProperties
    /\ Len(ev.rollouts) = 1
    /\ EvFlag.Ruleset.Rollout[1].RuntimeEvaluationRule.op = "=="
    /\ EvRuleCanHold(EvFlag.Ruleset.Rollout[1]) /\ EvRuleCanFail(EvFlag.Ruleset.Rollout[1])
    /\ ev.variant.VariantKey = SomeStr(VarC)

\* The map of ev with every rollout removed from the choice whose rule fails to
\* evaluate, or evaluates to something that is no boolean, on the context's properties.
EvFlagsWithoutBrokenRules ==
    [k \in DOMAIN EvFlags |->
        [EvFlags[k] EXCEPT !.Ruleset.Rollout =
            [i \in 1..Len(EvFlags[k].Ruleset.Rollout) |->
                LET rollout == EvFlags[k].Ruleset.Rollout[i]
                IN  IF rollout.RuntimeEvaluationRule.present /\ EvHasProperties
                       /\ \A result \in EvRuleResults(rollout.RuntimeEvaluationRule) :
                              result.kind # "ok"
                    THEN EvDisabled(rollout)
                    ELSE rollout]]]

\* C17: a rule that fails to evaluate or gives no boolean never surfaces as an error:
\* GetVariant, GetVariantValue, IsEnabled and GetAllVariants return no error, and they
\* return what they return when the rollouts of these rules are not there, so that
\* GetAllVariants returns the variants of the other flags.
C17_BrokenRuleIsNotSatisfied ==
    /\ ~ev.err
    /\ ev.op = "GetVariant" =>
          \E r \in GetVariantCall(EvFlagsWithoutBrokenRules, ev.key, EvalFallback,
                                  EvContext, ev.report, tracker) : ev.variant = r.variant
    /\ ev.op = "GetVariantValue" =>
          \E r \in GetVariantValueCall(EvFlagsWithoutBrokenRules, ev.key,
                                       EvalFallbackValue, EvContext, tracker) :
              ev.value = r.value
    /\ ev.op = "IsEnabled" =>
          \E r \in IsEnabledCall(EvFlagsWithoutBrokenRules, ev.key, EvContext, tracker) :
              ev.enabled = r.enabled
    /\ ev.op = "GetAllVariants" =>
          \E r \in GetAllVariantsCall(EvFlagsWithoutBrokenRules, EvContext, tracker) :
              ev.variants = r.variants

\* The positions of the rollouts that the call in ev can have been assigned, 0 for none.
EvAssignable ==
    EvQualifying
        \cup (IF \A i \in 1..Len(EvFlag.Ruleset.Rollout) : EvCanFail(i) THEN {0} ELSE {})

\* The call in ev returned what it returns when it is assigned the rollout at position
\* i, or no rollout for i = 0.
EvAssignedTo(i) == IF i = 0 THEN ev.variant = EvalFallback ELSE EvReturnedOf(i)

\* The variants of the flag of the call and the rollout at position i.
EvVariants == EvFlag.Ruleset.Variants
EvRollout(i) == EvFlag.Ruleset.Rollout[i]

\* The variants whose key is the rollout's variantOverride key, letter case ignored.
EvOverrideVariants(i) ==
    {v \in 1..Len(EvVariants) :
        /\ EvRollout(i).VariantOverride.present
        /\ ToLower(EvVariants[v].Key) = ToLower(EvRollout(i).VariantOverride.Key)}

\* The call in ev returned the v-th variant of the flag, chosen by a rollout.
EvReturnedVariant(v) ==
    /\ ev.variant.VariantKey = SomeStr(EvVariants[v].Key)
    /\ ev.variant.VariantValue = EvVariants[v].Value
    /\ ~ev.variant.IsQATester.present

\* The map of ev with the variantOverride of the rollout at position i taken away.
EvFlagsWithoutOverride(i) ==
    [EvFlags EXCEPT ![ev.key].Ruleset.Rollout[i].VariantOverride = NoOverride]

\* C18: when the assigned rollout has a variantOverride whose key is, letter case
\* ignored, the key of a variant, GetVariant returns that variant under the key as the
\* definition spells it; when the key is no variant's, it returns what it returns
\* without the override.
C18_VariantOverrideIgnoresCase ==
    (ev.op = "GetVariant" /\ EvByRollouts) =>
        \E i \in EvAssignable :
            /\ EvAssignedTo(i)
            /\ (i # 0 /\ EvRollout(i).VariantOverride.present) =>
                  IF EvOverrideVariants(i) # {}
                  THEN \E v \in EvOverrideVariants(i) : EvReturnedVariant(v)
                  ELSE ev.variant \in GetVariantOn(EvFlagsWithoutOverride(i), ev.key,
                                                   EvalFallback, EvContext)

\* GetVariant has returned variant B for the variantOverride key "b", where the splits
\* without the override give another variant.
C18_Witness ==
    /\ ev.op = "GetVariant" /\ ev.key = FlagF /\ EvByRollouts
    /\ \E i \in EvQualifying :
          /\ EvAssignable = {i}
          /\ EvRollout(i).VariantOverride = Override(VarB)
          /\ \A variant \in GetVariantOn(EvFlagsWithoutOverride(i), ev.key, EvalFallback,
                                         EvContext) :
                variant.VariantKey # SomeStr(VarUpperB)
    /\ ev.variant.VariantKey = SomeStr(VarUpperB)

\* h2 = bucket(subject, key + hashSalt + "variant").
EvVariantBucket ==
    normalizedHash(Sprintv(EvContext[EvFlag.Context]),
                   ev.key \o (IF EvFlag.HashSalt.present THEN EvFlag.HashSalt.v ELSE <<>>)
                          \o <<118, 97, 114, 105, 97, 110, 116>>)

\* The split of the v-th variant under the rollout at position i: the rollout's
\* variantSplits entry for its key when there is one.
EvSplit(i) ==
    [v \in 1..Len(EvVariants) |->
        IF EvRollout(i).VariantSplits.present
           /\ EvVariants[v].Key \in DOMAIN EvRollout(i).VariantSplits.m
        THEN EvRollout(i).VariantSplits.m[EvVariants[v].Key]
        ELSE EvVariants[v].Split]

RECURSIVE EvInKeyOrder(_)
\* The variants in S in ascending order of their keys.
EvInKeyOrder(S) ==
    IF S = {} THEN <<>>
    ELSE LET first == CHOOSE v \in S :
                         \A w \in S : ~StrLess(EvVariants[w].Key, EvVariants[v].Key)
         IN  <<first>> \o EvInKeyOrder(S \ {first})

RECURSIVE EvCumulative(_, _, _)
\* The cumulative splits of the variants in order: each is the float64 sum of the one
\* before it, sum for the first, and the variant's split.
EvCumulative(split, order, sum) ==
    IF order = <<>> THEN <<>>
    ELSE LET next == AddFloat64[sum, Float64[split[Head(order)]]]
         IN  <<next>> \o EvCumulative(split, Tail(order), next)

\* The sum of the splits of the variants whose key is not greater than the v-th's, in
\* hundredths and without rounding.
EvExactCumulative(i, v) ==
    SumOver(EvSplit(i), {w \in 1..Len(EvVariants) : ~StrLess(EvVariants[v].Key, EvVariants[w].Key)})

\* The variants whose cumulative split is greater than h2.
EvOverBucket(i) ==
    LET order == EvInKeyOrder(1..Len(EvVariants))
        cumulative == EvCumulative(EvSplit(i), order, Float64[0])
    IN  {order[n] : n \in {m \in 1..Len(order) :
                              LessFloat64[Float64[EvVariantBucket], cumulative[m]]}}

\* The variant that weighted selection is to return: of those over h2 the one of the
\* least key, or the variant of the greatest key when none is over h2.
EvWeighted(i) ==
    LET over == EvOverBucket(i)
    IN  IF over # {}
        THEN CHOOSE v \in over : \A w \in over : ~StrLess(EvVariants[w].Key, EvVariants[v].Key)
        ELSE CHOOSE v \in 1..Len(EvVariants) :
                \A w \in 1..Len(EvVariants) : ~StrLess(EvVariants[v].Key, EvVariants[w].Key)

\* C19: when the assigned rollout forces no variant, GetVariant returns, of the flag's
\* variants in ascending key order with the rollout's variantSplits applied, the first
\* whose cumulative split (a float64 sum, as h2 is a float64) is greater than h2, and
\* the last one when none is.
C19_WeightedSelection ==
    (ev.op = "GetVariant" /\ EvByRollouts) =>
        \E i \in EvAssignable :
            /\ EvAssignedTo(i)
            /\ (i # 0 /\ EvOverrideVariants(i) = {}) => EvReturnedVariant(EvWeighted(i))

\* GetVariant has returned the last variant in key order, c, as the splits of the
\* assigned rollout add up to less than h2.
C19_Witness ==
    /\ ev.op = "GetVariant" /\ ev.key = FlagF /\ EvByRollouts
    /\ \E i \in EvQualifying :
          /\ EvAssignable = {i}
          /\ EvOverrideVariants(i) = {} /\ EvRollout(i).VariantSplits.present
          /\ EvOverBucket(i) = {}
    /\ ev.variant.VariantKey = SomeStr(VarC)

\* GetVariant has returned variant a for h2 = 0.30 under the splits 0.1, 0.2, 0.7 of B,
\* a, c: the float64 sum 0.1 + 0.2 is greater than 0.3, which the sum in hundredths
\* is not.
C19_WitnessRounded ==
    /\ ev.op = "GetVariant" /\ ev.key = FlagF /\ EvByRollouts
    /\ EvVariantBucket = 30
    /\ \E i \in EvQualifying :
          /\ EvAssignable = {i}
          /\ EvOverrideVariants(i) = {}
          /\ \E v \in 1..Len(EvVariants) :
                /\ EvVariants[v].Key = VarA /\ EvExactCumulative(i, v) = 30
                /\ v \in EvOverBucket(i)
    /\ ev.variant.VariantKey = SomeStr(VarA)

\* C20: a GetVariant call invokes the tracker once, for the context's distinct_id, when
\* it returns a resolved variant, reportExposure is true, distinct_id is a string and
\* the tracker is not nil, and not at all otherwise; the variant it returns does not
\* depend on reportExposure or the tracker.
C20_ExposureAtMostOnce ==
    ev.op = "GetVariant" =>
        /\ Len(tracked) =
              IF ev.variant # EvalFallback /\ ev.report /\ EvHasSubject /\ tracker
              THEN 1 ELSE 0
        /\ \A i \in 1..Len(tracked) :
              /\ tracked[i].distinctID = EvContext["distinct_id"].str
              /\ tracked[i].properties["Experiment name"] = StrVal(ev.key)
              /\ tracked[i].properties["Variant name"] = ev.variant.VariantKey
        /\ ev.variant \in GetVariantOn(EvFlags, ev.key, EvalFallback, EvContext)

\* GetVariant with reportExposure has returned a resolved variant and invoked the
\* tracker once.
C20_Witness ==
    /\ ev.op = "GetVariant" /\ ev.report /\ tracker /\ EvHasSubject
    /\ ev.variant # EvalFallback
    /\ Len(tracked) = 1

\* The call in ev is one that evaluates a flag and reports its exposure itself.
EvEvaluates == ev.op \in {"GetVariant", "GetVariantValue", "IsEnabled"}

\* The variants that the evaluation of the call in ev can resolve to (the fallback of a
\* GetVariantValue or IsEnabled call has no key).
EvResolved ==
    IF ev.op = "GetVariant" THEN {ev.variant}
    ELSE GetVariantOn(EvFlags, ev.key, ZeroSelectedVariant, EvContext)

\* An optional property of an exposure event is there exactly when wanted, with value.
EvCarries(event, name, wanted, value) ==
    /\ (name \in DOMAIN event.properties) <=> wanted
    /\ wanted => event.properties[name] = value

\* C21: every exposure event that an evaluation (GetVariant, GetVariantValue, IsEnabled)
\* emits has the context's distinct_id as subject, the name $experiment_started, the
\* flag key of the call, the key of the variant the call resolved, experiment type
\* feature_flag and evaluation mode local; it has the experiment id and the
\* active-experiment flag exactly when the flag definition has them, with the
\* definition's values, and the QA-tester flag exactly when the variant is the one the
\* flag's test users give.  An event of TrackExposureEvent has the same fixed fields and
\* the optional ones exactly as the variant passed has them.
C21_ExposurePayload ==
    \A i \in 1..Len(tracked) :
        \E variant \in IF EvEvaluates THEN EvResolved ELSE {ev.variant} :
        LET event == tracked[i]
        IN  /\ EvHasSubject /\ event.distinctID = EvContext["distinct_id"].str
            /\ event.eventName = "$experiment_started"
            /\ event.properties["Experiment name"] = StrVal(ev.key)
            /\ event.properties["Variant name"] = variant.VariantKey
            /\ event.properties["$experiment_type"] = "feature_flag"
            /\ event.properties["Flag evaluation mode"] = "local"
            /\ EvEvaluates =>
                /\ variant.VariantKey.present
                /\ EvCarries(event, "$experiment_id", EvFlag.ExperimentID.present,
                             StrVal(EvFlag.ExperimentID.v))
                /\ EvCarries(event, "$is_experiment_active", EvFlag.IsExperimentActive.present,
                             BoolVal(EvFlag.IsExperimentActive.v))
                /\ EvCarries(event, "$is_qa_tester", EvIsTestUser /\ EvTestVariants # {},
                             BoolVal(TRUE))
            /\ ev.op = "TrackExposureEvent" =>
                /\ EvCarries(event, "$experiment_id", variant.ExperimentID.present,
                             StrVal(variant.ExperimentID.v))
                /\ EvCarries(event, "$is_experiment_active", variant.IsExperimentActive.present,
                             BoolVal(variant.IsExperimentActive.v))
                /\ EvCarries(event, "$is_qa_tester", variant.IsQATester.present,
                             BoolVal(variant.IsQATester.v))

\* GetVariantValue for flag g of experiment exp-123 has emitted an event for distinct_id
\* u1, with the experiment's id and its active flag and without the QA-tester flag.
C21_Witness ==
    /\ ev.op = "GetVariantValue" /\ ev.key = FlagG /\ Len(tracked) = 1
    /\ tracked[1].distinctID = User1
    /\ "$experiment_id" \in DOMAIN tracked[1].properties
    /\ tracked[1].properties["$experiment_id"] = StrVal(ExpId)
    /\ tracked[1].properties["$is_experiment_active"] = BoolVal(TRUE)
    /\ "$is_qa_tester" \notin DOMAIN tracked[1].properties
    /\ tracked[1].properties["Variant name"] = SomeStr(VarA)

\* The variants the flag can resolve to for the call in ev, when it resolves to one: the
\* test users' variant or the variant of an assigned rollout.
EvSelected == {s.selectedVariant : s \in selectedVariantOn(EvFlags, ev.key, EvContext)}

\* C22: IsEnabled returns true exactly when the flag resolves to a variant whose value
\* is the boolean true; it returns false for an unknown flag, for a context without the
\* flag's attribute, when no rollout is assigned and for a value that is not a boolean.
C22_IsEnabledExactlyTrue ==
    ev.op = "IsEnabled" =>
        /\ \E selected \in EvSelected :
              /\ ev.enabled <=>
                    /\ selected.present
                    /\ selected.v.VariantValue.type = "bool"
                    /\ selected.v.VariantValue = BoolVal(TRUE)
              /\ (selected.present /\ selected.v.VariantValue.type # "bool") => ~ev.enabled
        /\ ev.key \notin DOMAIN EvFlags => ~ev.enabled
        /\ ~EvHasAttribute => ~ev.enabled
        /\ (EvHasAttribute /\ ~(EvIsTestUser /\ EvTestVariants # {})
               /\ getAssignedRollout(EvFlag, EvContext[EvFlag.Context], EvContext) = {NoRollout})
              => ~ev.enabled

\* IsEnabled has returned false for flag f, which resolves to variant c, whose value is
\* the string "true".
C22_Witness ==
    /\ ev.op = "IsEnabled" /\ ev.key = FlagF /\ ~ev.enabled
    /\ \A selected \in EvSelected :
          /\ selected.present
          /\ selected.v.VariantKey = SomeStr(VarC)
          /\ selected.v.VariantValue = StrVal(<<116, 114, 117, 101>>)

\* IsEnabled has returned true.
C22_WitnessTrue == ev.op = "IsEnabled" /\ ev.enabled

\* IsEnabled has returned false for the number 1.
C22_WitnessNumber ==
    /\ ev.op = "IsEnabled" /\ ~ev.enabled
    /\ \A selected \in EvSelected : selected.present /\ selected.v.VariantValue = IntVal(1)

----------------------------------------------------------------------------
(* Properties of normalizedHash (SpecHash) *)

\* The FNV-1a hash as the claim defines it, computed a second way: a 64-bit number is
\* four digits of base 65536, least significant first.

\* 0xCBF29CE484222325 = 0xCBF2 0x9CE4 0x8422 0x2325.
RefOffset == <<8997, 33826, 40164, 52210>>

\* a xor b, bit by bit, for a, b < 2^8.
RefXor(a, b) ==
    LET bit(x, i) == (x \div (2 ^ i)) % 2
        d(i) == (2 ^ i) * ((bit(a, i) + bit(b, i)) % 2)
    IN  d(0) + d(1) + d(2) + d(3) + d(4) + d(5) + d(6) + d(7)

RECURSIVE RefTimes(_, _, _)
\* (h * m + carry) modulo 2^64.
RefTimes(h, m, carry) ==
    IF h = <<>> THEN <<>>
    ELSE LET p == Head(h) * m + carry
         IN  <<p % 65536>> \o RefTimes(Tail(h), m, p \div 65536)

RECURSIVE RefPlus(_, _, _)
\* (a + b + carry) modulo 2^64.
RefPlus(a, b, carry) ==
    IF a = <<>> THEN <<>>
    ELSE LET x == Head(a) + Head(b) + carry
         IN  <<x % 65536>> \o RefPlus(Tail(a), Tail(b), x \div 65536)

\* h * 0x100000001B3 modulo 2^64: h * 0x1B3 + ((h * 2^32) * 2^8).
RefTimesPrime(h) ==
    RefPlus(RefTimes(h, 435, 0), RefTimes(<<0, 0, h[1], h[2]>>, 256, 0), 0)

RECURSIVE RefHash(_, _)
RefHash(h, data) ==
    IF data = <<>> THEN h
    ELSE LET low == (h[1] \div 256) * 256 + RefXor(h[1] % 256, Head(data))
         IN  RefHash(RefTimesPrime([h EXCEPT ![1] = low]), Tail(data))

\* The hash of data modulo 100.
RefBucket(data) ==
    LET h == RefHash(RefOffset, data)
    IN  ((((((h[4] % 100) * 65536 + h[3]) % 100) * 65536 + h[2]) % 100) * 65536 + h[1]) % 100

\* C23: every call of normalizedHash(key, salt) returns the FNV-1a 64 hash of key + salt
\* modulo 100 (in hundredths): one of 0, ..., 99, the same at every call with the same
\* arguments, 72 for ("abc", "variant") and 21 for ("def", "variant").
C23_NormalizedHash ==
    \A i \in 1..Len(hashed.calls) :
        /\ hashed.calls[i] \in 0..99
        /\ hashed.calls[i] = RefBucket(hashed.key \o hashed.salt)
        /\ hashed.calls[i] = hashed.calls[1]
        /\ (hashed.key = <<97, 98, 99>> /\ hashed.salt = <<118, 97, 114, 105, 97, 110, 116>>)
              => hashed.calls[i] = 72
        /\ (hashed.key = <<100, 101, 102>> /\ hashed.salt = <<118, 97, 114, 105, 97, 110, 116>>)
              => hashed.calls[i] = 21

\* normalizedHash("abc", "variant") has been called twice and returned 0.72 both times.
C23_Witness ==
    /\ hashed.key = <<97, 98, 99>> /\ hashed.salt = <<118, 97, 114, 105, 97, 110, 116>>
    /\ hashed.calls = <<72, 72>>

----------------------------------------------------------------------------
(* Properties of the provider under a fair scheduler (SpecLive) *)

\* A pollForDefinitions goroutine takes the step A(t).
TaskDoes(A(_)) == \E t \in Threads : t.caller = 0 /\ A(t)

\* C24: a failed fetch of a pollForDefinitions goroutine and the logging of its error
\* leave the goroutine alive and the provider as it was; unless polling is stopped, the
\* goroutine then fetches again, a fetch of its that succeeds stores the map it built in
\* flagDefinitions, where the next GetVariant loads it, and if its fetches succeed again
\* and again, it gets to publish after every failure.
C24_FailedRefreshKeepsPolling ==
    /\ [][(TaskDoes(FetchFailed) \/ TaskDoes(PollLog))
             => (NumTasks' = NumTasks /\ UNCHANGED provider)]_vars
    /\ [][\A t \in Threads : (t.caller = 0 /\ FetchStore(t)) => flagDefinitions' = t.built]_vars
    /\ TaskAt("log") ~> (TaskAt("fetch") \/ stopPolling)
    /\ ([]<><<TaskDoes(FetchDecoded)>>_vars) => (TaskAt("log") ~> (TaskAt("ready") \/ stopPolling))

\* A fetch of the pollForDefinitions goroutine has failed while the provider serves the
\* map of an earlier fetch and nobody has stopped polling.
C24_Witness ==
    /\ TaskAt("log") /\ ~stopPolling /\ ~panicked
    /\ areFlagsReady /\ flagDefinitions # 0

----------------------------------------------------------------------------
(* Properties of the evaluation (SpecEval), continued *)

\* C25: the published map is in memory as it was published, at every moment, and no
\* call of GetVariant, GetVariantValue, IsEnabled, GetAllVariants or TrackExposureEvent
\* changes it (its flags, their variants in order with their splits, their rollouts), the
\* pointer to it or the ready flag; the splits of a rollout are not written into it.
C25_SnapshotIsNeverModified ==
    /\ [](published = EvalMap(ev))
    /\ [][/\ published' = published
          /\ flagDefinitions' = flagDefinitions
          /\ areFlagsReady' = areFlagsReady]_vars

\* GetVariant has resolved flag f through a rollout with variantSplits, by weighted
\* selection, and the variants in the map still have the splits they were published with.
C25_Witness ==
    /\ ev.op = "GetVariant" /\ ev.key = FlagF /\ EvByRollouts
    /\ ev.variant # EvalFallback
    /\ areFlagsReady
    /\ \E i \in EvQualifying :
          /\ EvAssignable = {i}
          /\ EvOverrideVariants(i) = {} /\ EvRollout(i).VariantSplits.present
          /\ \E v \in 1..Len(published[FlagF].Ruleset.Variants) :
                LET variant == published[FlagF].Ruleset.Variants[v]
                IN  /\ variant.Key \in DOMAIN EvRollout(i).VariantSplits.m
                    /\ variant.Split # EvRollout(i).VariantSplits.m[variant.Key]

\* Every fetch of a pollForDefinitions goroutine completes, with a response or an error
\* (which SpecLive grants to a client with a timeout only).
EveryFetchCompletes == TaskAt("fetch") ~> ~TaskAt("fetch")

\* C26: provided every fetch completes, a StopPollingForDefinitions call that found
\* pollingStarted set while a pollForDefinitions goroutine exists, idle between ticks or
\* in a fetch, returns in the end.
C26_StopEventuallyReturns ==
    EveryFetchCompletes =>
        \A c \in Readers : (pc[c] = "close" /\ NumTasks > 0) ~> Returned(c, "stop")

\* What holds instead: provided every fetch completes, the call returns in the end when
\* stopPolling has not been closed before, that is, in the first
\* StopPollingForDefinitions call on the provider.
C26_FirstStopEventuallyReturns ==
    EveryFetchCompletes =>
        \A c \in Readers :
            (pc[c] = "close" /\ NumTasks > 0 /\ ~stopPolling) ~> Returned(c, "stop")

\* A first StopPollingForDefinitions call has returned after waiting for the goroutine.
C26_FirstStopWitness ==
    Returned(1, "stop") /\ ret[1].waited /\ NumTasks = 0 /\ ~panicked

----------------------------------------------------------------------------
(* Properties of the provider used by one goroutine (SpecSeq) *)

\* C27: whatever calls one goroutine makes one after the other, a start, a stop, a
\* second start and a second stop included, no goroutine panics, and when a
\* StartPollingForDefinitions call returns after launching pollForDefinitions, that
\* goroutine exists and stopPolling is open, so that it refreshes at every tick until
\* the next stop.
C27_PollingRestarts ==
    /\ ~panicked
    /\ \A c \in Readers :
          (Returned(c, "start") /\ ret[c].launched) => (NumTasks = 1 /\ ~stopPolling)

----------------------------------------------------------------------------
(* Properties of the provider with its goroutines (Spec), continued *)

\* A caller is inside a StopPollingForDefinitions call that found pollingStarted set.
InStop(c) == pc[c] \in {"close", "wait", "clear"}

\* C28: while two StopPollingForDefinitions calls are under way, a close(p.stopPolling)
\* of either finds the channel open (the channel is closed once and nobody panics), and
\* a call returns only when no pollForDefinitions goroutine is left.
C28_ConcurrentStopsCloseOnce ==
    [][(\A d \in Callers : InStop(d)) =>
          /\ \A c \in Callers : StopClose(c) => (~stopPolling /\ ~panicked')
          /\ \A c \in Callers : StopClear(c) => NumTasks = 0]_vars

\* C29: whenever areFlagsReady is true, flagDefinitions points to a map that a
\* successful fetch built and not to the empty map of the constructor, and once it points
\* to a fetched map it never points to the constructor's again: a goroutine that reads
\* ready = true and loads the pointer afterwards gets a fetched map.
C29_ReadyImpliesFetchedSnapshot ==
    /\ [](areFlagsReady => flagDefinitions # 0)
    /\ [][flagDefinitions # 0 => flagDefinitions' # 0]_vars

\* With the flags ready, a GetVariant call has returned that loaded the map of a fetch,
\* while a later fetch has decoded its body and not stored its map yet.
C29_Witness ==
    /\ areFlagsReady
    /\ Returned(1, "GetVariant") /\ ret[1].flags # 0
    /\ \E t \in Threads : t.pc = "store"

----------------------------------------------------------------------------
(* Properties of the percentage test (SpecHash) *)

\* The bucket value of the subject hashed.key for the only rollout of the flag, computed
\* as the claim says: the salt is "f" + hashSalt + "0", or "f" + "rollout" without hashSalt.
HashRolloutBucket ==
    RefBucket(hashed.key
              \o (IF hashed.salt = <<>>
                  THEN <<102, 114, 111, 108, 108, 111, 117, 116>>
                  ELSE <<102>> \o hashed.salt \o <<48>>))

\* C30: for every subject and salt the bucket value is one of 0, ..., 99 (hundredths)
\* and the rollout is assigned exactly when the bucket value is below its percentage: a
\* rollout of percentage 1.0 is assigned to every subject, one of percentage 0 to none.
C30_FullAndEmptyRollout ==
    \A i \in 1..Len(hashed.assigned) :
        LET call == hashed.assigned[i]
        IN  /\ HashRolloutBucket \in 0..99
            /\ call.pct = 100 => call.rollout = 1
            /\ call.pct = 0 => call.rollout = 0
            /\ call.rollout = 1 <=> HashRolloutBucket < call.pct

\* A rollout of percentage 1.0 has been assigned to the subject "be", whose bucket value
\* is 0.99.
C30_Witness ==
    /\ hashed.assigned # <<>>
    /\ hashed.key = <<98, 101>>
    /\ hashed.assigned[1].pct = 100 /\ hashed.assigned[1].rollout = 1
    /\ HashRolloutBucket = 99

\* A rollout of percentage 0 has not been assigned to a subject whose bucket value is 0.
C30_WitnessEmpty ==
    /\ hashed.assigned # <<>>
    /\ hashed.assigned[1].pct = 0 /\ hashed.assigned[1].rollout = 0
    /\ HashRolloutBucket = 0

====
